---- MODULE Spec2Model ----
(***************************************************************************)
(* Model of the mcp-gateway core: the venue-based unified tool router      *)
(* (adapters/unified_router.py), the provider client's health state        *)
(* (adapters/grpc_client.py) and the TTL cache (cache.py).                 *)
(*                                                                         *)
(* Time is counted in ticks of 0.1 s (time.time() is a float of seconds;   *)
(* every duration the code compares is a multiple of 0.1 s).               *)
(*                                                                         *)
(* A Python dict with string keys is a function whose DOMAIN is its key    *)
(* set.  A JSON value whose Python type the code inspects (isinstance) is  *)
(* a record [type |-> "dict" | "list", items |-> ...].                     *)
(***************************************************************************)
EXTENDS Integers, Sequences, FiniteSets, TLC

VARIABLES
    provider_clients,      \* UnifiedToolRouter.provider_clients: the provider ids that have a client
    is_healthy,            \* ProviderGRPCClient._is_healthy, per client
    consecutive_failures,  \* ProviderGRPCClient._consecutive_failures, per client
    call,                  \* the activation of route_tool_call: its inputs, locals, position and outcome
    invoked,               \* the client.invoke calls made during that activation, in order
    listed,                \* the last list_capabilities call made at discovery: the client and how it ended
    now,                   \* time.time(), in ticks
    cache,                 \* SimpleCache._cache: key -> CacheEntry(data, timestamp)
    last_op,               \* the last cache operation: what it was called with and what it returned
    ttl_call,              \* an application of SimpleCache._get_ttl_for_key: the cache's table, the key, the result
    handlers,              \* the activations of FetchTool.fetch: per handler its inputs, locals, position and outcome
    norm,                  \* an application of SchemaAdapter.normalize: its inputs, the clock, the caller's object and the outcome
    document               \* a DocumentID on its way through to_id and from_id

vars == <<provider_clients, is_healthy, consecutive_failures, call, invoked, listed, now, cache,
          last_op, ttl_call, handlers, norm, document>>

---------------------------------------------------------------------------
(* Bounds of the model *)

\* the router's clock stops here (ticks)
MaxClock == 1
\* a failing health check is not repeated beyond this many consecutive failures
MaxFailures == 2
\* the cache's clock stops here (ticks)
MaxTime == 12

---------------------------------------------------------------------------
(* config.py: venue resolution *)

\* VENUE_MAPPING: public venue name -> provider id
VENUE_MAPPING == [v \in {"binance"} |-> "binance"]

\* PUBLIC_VENUES = list(VENUE_MAPPING.keys())
PUBLIC_VENUES == <<"binance">>

---------------------------------------------------------------------------
(* Inputs *)

\* provider ids a deployment may connect a client for
Providers == {"binance", "okx"}

UnifiedToolNames == {"market.generate_report", "market.get_ticker", "market.get_orderbook_l1"}
VenueValues == {"binance", "okx", "kraken"}
SymbolValues == {"BTCUSDT", "ETHUSDT"}
ArgKeys == {"venue", "instrument", "symbol", "interval"}

\* the arguments dicts: any subset of ArgKeys, 'venue' a venue name,
\* 'instrument' a symbol, 'symbol' "ETHUSDT", 'interval' "1h"
ArgumentsSet ==
    { a \in UNION { [D -> VenueValues \cup SymbolValues \cup {"1h"}] : D \in SUBSET ArgKeys } :
        /\ "venue" \in DOMAIN a => a["venue"] \in VenueValues
        /\ "instrument" \in DOMAIN a => a["instrument"] \in SymbolValues
        /\ "symbol" \in DOMAIN a => a["symbol"] = "ETHUSDT"
        /\ "interval" \in DOMAIN a => a["interval"] = "1h" }

CorrelationIds == {"test-123", "test-456"}
\* seconds; 15 is route_tool_call's default
Timeouts == {5, 15}

\* what client.invoke returns: {"result": <parsed JSON>} or {"error": <text>}
DictResponses ==
    { [result |-> [type |-> "dict", items |-> d]] :
        d \in { [report |-> "# BTCUSDT report"],
                [venue |-> "BINANCE-SPOT", symbol |-> "BTCUSDT"] } }
ListResponses ==
    { [result |-> [type |-> "list", items |-> l]] :
        l \in { <<>>, <<"trade-1", "trade-2">> } }
ErrorResponses == { [error |-> "Symbol not found"] }

\* what client.invoke raises: grpc.RpcError (timeout, connection), or the JSON
\* encoding/decoding error of lines 138/154
Causes == {"DEADLINE_EXCEEDED", "UNAVAILABLE", "JSONDecodeError"}

---------------------------------------------------------------------------
(* adapters/unified_router.py *)

\* _build_tool_mapping: unified tool name -> provider tool pattern; the
\* pattern "{venue}.generate_market_report" is the sequence of its segments
_tool_mapping ==
    [t \in {"market.generate_report"} |-> <<"{venue}", ".generate_market_report">>]

\* sse_server.py, list_tools: the names of the unified tools it advertises
list_tools ==
    << "market.get_ticker", "market.get_orderbook_l1", "market.get_orderbook_l2",
       "market.get_klines", "market.get_recent_trades", "market.get_exchange_info",
       "market.get_avg_price", "trade.place_order", "trade.cancel_order", "trade.get_order",
       "trade.get_open_orders", "trade.get_all_orders", "trade.get_account",
       "trade.get_my_trades", "analytics.get_orderbook_health", "analytics.get_order_flow",
       "analytics.get_volume_profile", "analytics.detect_market_anomalies",
       "analytics.get_microstructure_health", "analytics.detect_liquidity_vacuums" >>

\* get_supported_tools: list(self._tool_mapping.keys())
get_supported_tools == <<"market.generate_report">>

RECURSIVE format(_, _)
\* pattern.format(venue=v): every "{venue}" segment replaced by v
format(pattern, v) ==
    IF pattern = <<>> THEN ""
    ELSE (IF Head(pattern) = "{venue}" THEN v ELSE Head(pattern)) \o format(Tail(pattern), v)

\* a Python list's membership test
InList(x, list) == \E i \in 1..Len(list) : list[i] = x

ResolveVenue_DefaultOkx(arguments) ==
    IF "venue" \in DOMAIN arguments THEN arguments["venue"] ELSE "okx"

\* line 72: arguments.get("venue", "binance")
ResolveVenue(arguments) ==
    IF "venue" \in DOMAIN arguments THEN arguments["venue"] ELSE "binance"

\* no exception raised
NoError == [type |-> "none", kind |-> "none"]

\* the ValueError of lines 76-78; its message names the venue and joins PUBLIC_VENUES
UnknownVenue(venue) ==
    [type |-> "ValueError", kind |-> "UnknownVenue", venue |-> venue, listed |-> PUBLIC_VENUES]

\* the ValueError of lines 85-87
ProviderNotConfigured(venue) ==
    [type |-> "ValueError", kind |-> "ProviderNotConfigured", venue |-> venue]

\* the ValueError of lines 98-101; its message names the tool and lists the mapping's keys
UnsupportedTool(unified_tool_name) ==
    [type |-> "ValueError", kind |-> "UnsupportedTool", tool |-> unified_tool_name,
     listed |-> get_supported_tools]

ProviderInvocationFailed_Unwrapped(venue, provider_tool_name, cause) ==
    [type |-> "RpcError", kind |-> cause]

\* the RuntimeError of lines 159-161: "Provider {venue} failed to execute
\* {provider_tool_name}: {e}", raised from e
ProviderInvocationFailed(venue, provider_tool_name, cause) ==
    [type |-> "RuntimeError", kind |-> "ProviderInvocationFailed", venue |-> venue,
     provider_tool_name |-> provider_tool_name, cause |-> cause]

Validate_ToolFirst(unified_tool_name, arguments) ==
    LET venue == ResolveVenue(arguments) IN
    IF unified_tool_name \notin DOMAIN _tool_mapping THEN UnsupportedTool(unified_tool_name)
    ELSE IF ~InList(venue, PUBLIC_VENUES) THEN UnknownVenue(venue)
    ELSE IF VENUE_MAPPING[venue] \notin provider_clients THEN ProviderNotConfigured(venue)
    ELSE NoError

Validate_CircuitBreaker(unified_tool_name, arguments) ==
    LET venue == ResolveVenue(arguments) IN
    IF ~InList(venue, PUBLIC_VENUES) THEN UnknownVenue(venue)
    ELSE IF VENUE_MAPPING[venue] \notin provider_clients THEN ProviderNotConfigured(venue)
    ELSE IF ~is_healthy[VENUE_MAPPING[venue]] THEN
        [type |-> "ValueError", kind |-> "ProviderUnhealthy", venue |-> venue]
    ELSE IF unified_tool_name \notin DOMAIN _tool_mapping THEN UnsupportedTool(unified_tool_name)
    ELSE NoError

\* lines 71-101: the validations of route_tool_call, in the order the code
\* makes them; the health check of lines 93-94 only logs a warning
Validate(unified_tool_name, arguments) ==
    LET venue == ResolveVenue(arguments) IN
    IF ~InList(venue, PUBLIC_VENUES) THEN UnknownVenue(venue)
    ELSE IF VENUE_MAPPING[venue] \notin provider_clients THEN ProviderNotConfigured(venue)
    ELSE IF unified_tool_name \notin DOMAIN _tool_mapping THEN UnsupportedTool(unified_tool_name)
    ELSE NoError

ProviderArguments_KeepVenue(arguments) ==
    LET keys == (DOMAIN arguments \ {"instrument"})
                    \cup (IF "instrument" \in DOMAIN arguments THEN {"symbol"} ELSE {})
    IN [k \in keys |->
            IF k = "symbol" /\ "instrument" \in DOMAIN arguments
            THEN arguments["instrument"] ELSE arguments[k]]

\* lines 108-112: a new dict without 'venue', then 'instrument' popped and
\* stored under 'symbol' (replacing a 'symbol' the caller gave)
ProviderArguments(arguments) ==
    LET copied == DOMAIN arguments \ {"venue"}
        keys == (copied \ {"instrument"})
                    \cup (IF "instrument" \in copied THEN {"symbol"} ELSE {})
    IN [k \in keys |->
            IF k = "symbol" /\ "instrument" \in copied
            THEN arguments["instrument"] ELSE arguments[k]]

\* lines 121-126: the keyword arguments of client.invoke
InvokeKwargs(provider_tool_name, provider_arguments, correlation_id, timeout) ==
    [tool_name |-> provider_tool_name, payload |-> provider_arguments,
     correlation_id |-> correlation_id, timeout |-> timeout]

ShapeResult_NoRoutingInfo(result, unified_tool_name, provider_tool_name, venue, start_time) ==
    result

\* lines 129-144: the metadata added to a response that has a 'result';
\* latency_ms = (time.time() - start_time) * 1000, a tick being 100 ms
ShapeResult(result, unified_tool_name, provider_tool_name, venue, start_time) ==
    LET latency_ms == (now - start_time) * 100
        raw == result["result"]
        shaped ==
            IF raw.type = "dict"
            THEN [raw EXCEPT !.items =
                    [k \in DOMAIN raw.items \cup {"latency_ms", "venue"} |->
                        IF k = "latency_ms" THEN latency_ms
                        ELSE IF k = "venue" THEN venue ELSE raw.items[k]]]
            ELSE raw
    IN IF "result" \in DOMAIN result
       THEN [k \in DOMAIN result \cup {"routing_info"} |->
                IF k = "routing_info"
                THEN [unified_tool |-> unified_tool_name, provider_tool |-> provider_tool_name,
                      venue |-> venue, latency_ms |-> latency_ms]
                ELSE IF k = "result" THEN shaped ELSE result[k]]
       ELSE result

Idle == [pc |-> "idle"]

\* lines 108-112: the caller's dict once the payload is prepared; the
\* comprehension builds a new dict and pop acts on that one
CallerArguments(arguments) == arguments

\* the activation's inputs and what lines 69-94 read: given is the arguments
\* dict as the caller passed it, arguments the same dict object as it is now,
\* client_healthy what is_healthy() answered at line 93 (TRUE when the
\* activation raised before reaching it)
Activation(unified_tool_name, arguments, correlation_id, timeout) ==
    LET venue == ResolveVenue(arguments) IN
    [unified_tool_name |-> unified_tool_name, given |-> arguments, arguments |-> arguments,
     correlation_id |-> correlation_id, timeout |-> timeout, start_time |-> now,
     venue |-> venue,
     client_healthy |->
        IF InList(venue, PUBLIC_VENUES) /\ VENUE_MAPPING[venue] \in provider_clients
        THEN is_healthy[VENUE_MAPPING[venue]] ELSE TRUE]

RouteToolCall_InvokeBeforeToolCheck(unified_tool_name, arguments, correlation_id, timeout) ==
    LET error == Validate(unified_tool_name, arguments)
        venue == ResolveVenue(arguments)
        act == Activation(unified_tool_name, arguments, correlation_id, timeout)
    IN /\ call.pc = "idle"
       /\ call' = [pc |-> IF error = NoError THEN "invoking" ELSE "raised",
                   error |-> error] @@ act
       /\ invoked' = IF error = NoError \/ error.kind = "UnsupportedTool"
                     THEN << [client |-> VENUE_MAPPING[venue]] @@
                             InvokeKwargs(unified_tool_name, ProviderArguments(arguments),
                                          correlation_id, timeout) >>
                     ELSE <<>>
       /\ UNCHANGED <<listed, provider_clients, is_healthy, consecutive_failures, now, cache, last_op, ttl_call, handlers, norm, document>>

\* route_tool_call, lines 69-126: from its entry to the await of client.invoke
\* (the only suspension point), or to the ValueError a validation raises
RouteToolCall(unified_tool_name, arguments, correlation_id, timeout) ==
    LET error == Validate(unified_tool_name, arguments)
        venue == ResolveVenue(arguments)
        act == Activation(unified_tool_name, arguments, correlation_id, timeout)
    IN /\ call.pc = "idle"
       /\ IF error # NoError
          THEN /\ call' = [pc |-> "raised", error |-> error] @@ act
               /\ invoked' = <<>>
          ELSE LET provider_id == VENUE_MAPPING[venue]
                   provider_tool_name == format(_tool_mapping[unified_tool_name], provider_id)
                   provider_arguments == ProviderArguments(arguments)
               IN /\ call' = [pc |-> "invoking", error |-> NoError,
                              arguments |-> CallerArguments(arguments),
                              provider_id |-> provider_id,
                              provider_tool_name |-> provider_tool_name,
                              provider_arguments |-> provider_arguments] @@ act
                  /\ invoked' = << [client |-> provider_id] @@
                                   InvokeKwargs(provider_tool_name, provider_arguments,
                                                correlation_id, timeout) >>
       /\ UNCHANGED <<listed, provider_clients, is_healthy, consecutive_failures, now, cache, last_op, ttl_call, handlers, norm, document>>

\* route_tool_call, lines 128-151: client.invoke returned `result`
InvokeReturns(result) ==
    /\ call.pc = "invoking"
    /\ call' = [call EXCEPT !.pc = "returned"] @@
               [response |-> result,
                returned |-> ShapeResult(result, call.unified_tool_name, call.provider_tool_name,
                                         call.venue, call.start_time)]
    /\ UNCHANGED <<listed, provider_clients, is_healthy, consecutive_failures, invoked, now, cache, last_op, ttl_call, handlers, norm, document>>

InvokeRaises_Retry(cause) ==
    /\ call.pc = "invoking"
    /\ call' = [call EXCEPT !.pc = "raised",
                            !.error = ProviderInvocationFailed(call.venue, call.provider_tool_name, cause)]
               @@ [cause |-> cause]
    /\ invoked' = invoked \o invoked
    /\ UNCHANGED <<listed, provider_clients, is_healthy, consecutive_failures, now, cache, last_op, ttl_call, handlers, norm, document>>

\* a failed invocation counts as a failed health check of the client
InvokeRaises_MarksUnhealthy(cause) ==
    /\ call.pc = "invoking"
    /\ call' = [call EXCEPT !.pc = "raised",
                            !.error = ProviderInvocationFailed(call.venue, call.provider_tool_name, cause)]
               @@ [cause |-> cause]
    /\ is_healthy' = [is_healthy EXCEPT ![VENUE_MAPPING[call.venue]] = FALSE]
    /\ consecutive_failures' =
            [consecutive_failures EXCEPT ![VENUE_MAPPING[call.venue]] =
                IF @ < MaxFailures THEN @ + 1 ELSE @]
    /\ UNCHANGED <<listed, provider_clients, invoked, now, cache, last_op, ttl_call, handlers, norm, document>>

\* route_tool_call, lines 153-161: client.invoke raised
InvokeRaises(cause) ==
    /\ call.pc = "invoking"
    /\ call' = [call EXCEPT !.pc = "raised",
                            !.error = ProviderInvocationFailed(call.venue, call.provider_tool_name, cause)]
               @@ [cause |-> cause]
    /\ UNCHANGED <<listed, provider_clients, is_healthy, consecutive_failures, invoked, now, cache, last_op, ttl_call, handlers, norm, document>>

\* the activation is over: its caller has taken the value or the exception
RouteDone ==
    /\ call.pc \in {"returned", "raised"}
    /\ call' = Idle
    /\ invoked' = <<>>
    /\ UNCHANGED <<listed, provider_clients, is_healthy, consecutive_failures, now, cache, last_op, ttl_call, handlers, norm, document>>

---------------------------------------------------------------------------
(* adapters/grpc_client.py: health state *)

\* a health check that passes marks the client healthy and keeps the count
HealthCheck_NoReset(p, ok) ==
    /\ p \in provider_clients
    /\ ok \/ consecutive_failures[p] < MaxFailures
    /\ is_healthy' = [is_healthy EXCEPT ![p] = ok]
    /\ consecutive_failures' =
            [consecutive_failures EXCEPT ![p] = IF ok THEN @ ELSE @ + 1]
    /\ UNCHANGED <<listed, provider_clients, call, invoked, now, cache, last_op, ttl_call, handlers, norm, document>>

\* health_check on the client of provider p; ok: list_capabilities answered
HealthCheck(p, ok) ==
    /\ p \in provider_clients
    /\ ok \/ consecutive_failures[p] < MaxFailures
    /\ is_healthy' = [is_healthy EXCEPT ![p] = ok]
    /\ consecutive_failures' =
            [consecutive_failures EXCEPT ![p] = IF ok THEN 0 ELSE @ + 1]
    /\ UNCHANGED <<listed, provider_clients, call, invoked, now, cache, last_op, ttl_call, handlers, norm, document>>

\* list_capabilities on the client of provider p, called at discovery
\* (main.py 53-59, sse_server.py 77), lines 62-116: it takes a channel, awaits
\* the stub and returns the capabilities (ok) or re-raises the grpc.RpcError;
\* it writes neither _is_healthy nor _consecutive_failures
ListCapabilities(p, ok) ==
    /\ p \in provider_clients
    /\ listed' = [pc |-> IF ok THEN "returned" ELSE "raised", provider |-> p]
    /\ UNCHANGED <<provider_clients, is_healthy, consecutive_failures, call, invoked, now, cache,
                   last_op, ttl_call, handlers, norm, document>>

\* time.time() advances while the router runs
RouterTick ==
    /\ now < MaxClock
    /\ now' = now + 1
    /\ UNCHANGED <<listed, provider_clients, is_healthy, consecutive_failures, call, invoked, cache, last_op, ttl_call, handlers, norm, document>>

---------------------------------------------------------------------------
(* The router and its provider clients *)

InitRouter ==
    /\ provider_clients \in SUBSET Providers
    /\ is_healthy = [p \in provider_clients |-> TRUE]
    /\ consecutive_failures = [p \in provider_clients |-> 0]
    /\ call = Idle
    /\ invoked = <<>>
    /\ listed = [pc |-> "none"]
    /\ now = 0
    /\ cache = <<>>
    /\ last_op = [op |-> "none"]
    /\ ttl_call = [pc |-> "none"]
    /\ handlers = <<>>
    /\ norm = [pc |-> "none"]
    /\ document = [pc |-> "none"]

NextRouter ==
    \/ \E u \in UnifiedToolNames, a \in ArgumentsSet, c \in CorrelationIds, t \in Timeouts :
            RouteToolCall(u, a, c, t)
    \/ \E r \in DictResponses : InvokeReturns(r)
    \/ \E r \in ListResponses : InvokeReturns(r)
    \/ \E r \in ErrorResponses : InvokeReturns(r)
    \/ \E e \in Causes : InvokeRaises(e)
    \/ RouteDone
    \/ \E p \in Providers, ok \in BOOLEAN : HealthCheck(p, ok)
    \/ RouterTick

SpecRouter == InitRouter /\ [][NextRouter]_vars

\* the router, its clients' health checks and the capability discovery: the
\* callers of route_tool_call, of invoke, of health_check and of
\* list_capabilities, with route_tool_call's default timeout and one
\* correlation id
NextHealth ==
    \/ \E u \in UnifiedToolNames, a \in ArgumentsSet : RouteToolCall(u, a, "test-123", 15)
    \/ \E r \in DictResponses : InvokeReturns(r)
    \/ \E r \in ErrorResponses : InvokeReturns(r)
    \/ \E e \in Causes : InvokeRaises(e)
    \/ RouteDone
    \/ \E p \in Providers, ok \in BOOLEAN : HealthCheck(p, ok)
    \/ \E p \in Providers, ok \in BOOLEAN : ListCapabilities(p, ok)

SpecHealth == InitRouter /\ [][NextHealth]_vars

---------------------------------------------------------------------------
(* cache.py *)
(* A str is the sequence of its characters, so that `pattern in key` is    *)
(* the substring test the code makes.  None, where get returns it, is the  *)
(* string "None".                                                          *)

\* market_data_cache's ttl_seconds = 5.0, in ticks
default_ttl == 50

\* market_data_cache's tool_ttls, in the dict's insertion order: "ticker": 1.0,
\* "orderbook": 0.5, "orderbook_l1": 0.5, "orderbook_l2": 0.5, "klines": 5.0,
\* "instrument": 300.0, "exchange_info": 300.0 (seconds; here in ticks)
tool_ttls ==
    << <<<<"t", "i", "c", "k", "e", "r">>, 10>>,
       <<<<"o", "r", "d", "e", "r", "b", "o", "o", "k">>, 5>>,
       <<<<"o", "r", "d", "e", "r", "b", "o", "o", "k", "_", "l", "1">>, 5>>,
       <<<<"o", "r", "d", "e", "r", "b", "o", "o", "k", "_", "l", "2">>, 5>>,
       <<<<"k", "l", "i", "n", "e", "s">>, 50>>,
       <<<<"i", "n", "s", "t", "r", "u", "m", "e", "n", "t">>, 3000>>,
       <<<<"e", "x", "c", "h", "a", "n", "g", "e", "_", "i", "n", "f", "o">>, 3000>> >>

\* the str `in` operator: pattern occurs in key as a run of consecutive characters
Contains(pattern, key) ==
    \E i \in 0..(Len(key) - Len(pattern)) :
        \A j \in 1..Len(pattern) : key[i + j] = pattern[j]

\* the longest pattern that occurs in key decides, wherever it stands in the table
ttl_for_Longest(self, key) ==
    LET table == self.tool_ttls
        matches == { i \in 1..Len(table) : Contains(table[i][1], key) }
    IN IF matches = {} THEN self.default_ttl
       ELSE table[CHOOSE i \in matches :
                    \A j \in matches : Len(table[j][1]) <= Len(table[i][1])][2]

RECURSIVE LastMatch(_, _, _)
LastMatch(table, default, key) ==
    IF table = <<>> THEN default
    ELSE IF Contains(table[Len(table)][1], key) THEN table[Len(table)][2]
         ELSE LastMatch(SubSeq(table, 1, Len(table) - 1), default, key)

\* a later matching entry overrides an earlier one
ttl_for_LastMatch(self, key) == LastMatch(self.tool_ttls, self.default_ttl, key)

RECURSIVE ttl_loop(_, _, _)
\* lines 47-50: the for loop over the entries that are left, in the dict's
\* order, returning at the first pattern found in key; the default after the loop
ttl_loop(table, default, key) ==
    IF table = <<>> THEN default
    ELSE IF Contains(Head(table)[1], key) THEN Head(table)[2]
         ELSE ttl_loop(Tail(table), default, key)

\* SimpleCache._get_ttl_for_key, of the cache `self` (its default_ttl and tool_ttls)
ttl_for(self, key) == ttl_loop(self.tool_ttls, self.default_ttl, key)

\* the module's cache object: SimpleCache(ttl_seconds=5.0, tool_ttls={...})
market_data_cache == [default_ttl |-> default_ttl, tool_ttls |-> tool_ttls]

\* market_data_cache._get_ttl_for_key
_get_ttl_for_key(key) == ttl_for(market_data_cache, key)

\* "binance.orderbook_l1:BTCUSDT"
OrderbookKey == <<"b", "i", "n", "a", "n", "c", "e", ".", "o", "r", "d", "e", "r", "b", "o", "o", "k", "_", "l", "1", ":", "B", "T", "C", "U", "S", "D", "T">>
\* "binance.get_ticker:BTCUSDT"
TickerKey == <<"b", "i", "n", "a", "n", "c", "e", ".", "g", "e", "t", "_", "t", "i", "c", "k", "e", "r", ":", "B", "T", "C", "U", "S", "D", "T">>
CacheKeys == {OrderbookKey, TickerKey}
CacheValues == {"data-1", "data-2"}

Expired_AtBoundary(age, ttl) == age >= ttl

\* lines 71 and 115: age > ttl
Expired(age, ttl) == age > ttl

\* CacheEntry(data=value, timestamp=time.time())
CacheEntry(value) == [data |-> value, timestamp |-> now]

\* the dict without the entries of keys
Without(keys) == [k \in DOMAIN cache \ keys |-> cache[k]]

\* SimpleCache.get
Get(key) ==
    /\ IF key \notin DOMAIN cache
       THEN /\ cache' = cache
            /\ last_op' = [op |-> "get", key |-> key, at |-> now, had |-> FALSE, ret |-> "None"]
       ELSE LET entry == cache[key]
                ttl == _get_ttl_for_key(key)
                age == now - entry.timestamp
            IN IF Expired(age, ttl)
               THEN /\ cache' = Without({key})
                    /\ last_op' = [op |-> "get", key |-> key, at |-> now, had |-> TRUE,
                                   entry |-> entry, ret |-> "None"]
               ELSE /\ cache' = cache
                    /\ last_op' = [op |-> "get", key |-> key, at |-> now, had |-> TRUE,
                                   entry |-> entry, ret |-> entry.data]
    /\ UNCHANGED <<listed, provider_clients, is_healthy, consecutive_failures, call, invoked, now, ttl_call, handlers, norm, document>>

\* a present entry is kept: the value is stored only when the key has none
Set_IfAbsent(key, value) ==
    /\ cache' = [k \in DOMAIN cache \cup {key} |->
                    IF k \in DOMAIN cache THEN cache[k] ELSE CacheEntry(value)]
    /\ last_op' = [op |-> "set", key |-> key, at |-> now, value |-> value]
    /\ UNCHANGED <<listed, provider_clients, is_healthy, consecutive_failures, call, invoked, now, ttl_call, handlers, norm, document>>

\* SimpleCache.set
Set(key, value) ==
    /\ cache' = [k \in DOMAIN cache \cup {key} |-> IF k = key THEN CacheEntry(value) ELSE cache[k]]
    /\ last_op' = [op |-> "set", key |-> key, at |-> now, value |-> value]
    /\ UNCHANGED <<listed, provider_clients, is_healthy, consecutive_failures, call, invoked, now, ttl_call, handlers, norm, document>>

\* SimpleCache.invalidate
Invalidate(key) ==
    /\ cache' = Without({key})
    /\ last_op' = [op |-> "invalidate", key |-> key, at |-> now]
    /\ UNCHANGED <<listed, provider_clients, is_healthy, consecutive_failures, call, invoked, now, ttl_call, handlers, norm, document>>

\* SimpleCache.clear
Clear ==
    /\ cache' = <<>>
    /\ last_op' = [op |-> "clear", at |-> now]
    /\ UNCHANGED <<listed, provider_clients, is_healthy, consecutive_failures, call, invoked, now, ttl_call, handlers, norm, document>>

\* SimpleCache.cleanup_expired
CleanupExpired ==
    LET expired_keys ==
            { k \in DOMAIN cache : Expired(now - cache[k].timestamp, _get_ttl_for_key(k)) }
    IN /\ cache' = Without(expired_keys)
       /\ last_op' = [op |-> "cleanup_expired", at |-> now]
       /\ UNCHANGED <<listed, provider_clients, is_healthy, consecutive_failures, call, invoked, now, ttl_call, handlers, norm, document>>

\* SimpleCache.get_stats
GetStats ==
    LET valid_count ==
            Cardinality({ k \in DOMAIN cache :
                            now - cache[k].timestamp <= _get_ttl_for_key(k) })
    IN /\ last_op' = [op |-> "get_stats", at |-> now,
                      ret |-> [total_entries |-> Cardinality(DOMAIN cache),
                               valid_entries |-> valid_count,
                               expired_entries |-> Cardinality(DOMAIN cache) - valid_count,
                               default_ttl_seconds |-> default_ttl,
                               tool_ttls |-> tool_ttls]]
       /\ UNCHANGED <<listed, provider_clients, is_healthy, consecutive_failures, call, invoked, now, cache, ttl_call, handlers, norm, document>>

\* time.time() advances while the cache is in use
Tick ==
    /\ now < MaxTime
    /\ now' = now + 1
    /\ UNCHANGED <<listed, provider_clients, is_healthy, consecutive_failures, call, invoked, cache, last_op, ttl_call, handlers, norm, document>>

InitCache ==
    /\ provider_clients = {}
    /\ is_healthy = <<>>
    /\ consecutive_failures = <<>>
    /\ call = Idle
    /\ invoked = <<>>
    /\ listed = [pc |-> "none"]
    /\ now = 0
    /\ cache = <<>>
    /\ last_op = [op |-> "none"]
    /\ ttl_call = [pc |-> "none"]
    /\ handlers = <<>>
    /\ norm = [pc |-> "none"]
    /\ document = [pc |-> "none"]

NextCache ==
    \/ \E k \in CacheKeys : Get(k)
    \/ \E k \in CacheKeys, v \in CacheValues : Set(k, v)
    \/ \E k \in CacheKeys : Invalidate(k)
    \/ Clear
    \/ CleanupExpired
    \/ GetStats
    \/ Tick

SpecCache == InitCache /\ [][NextCache]_vars

---------------------------------------------------------------------------
(* cache.py: _get_ttl_for_key on caches built with other tables *)

\* the longest table a cache is built with here
MaxTableLen == 2

\* patterns of market_data_cache's table: "orderbook", "orderbook_l1", "ticker"
TtlPatterns == {tool_ttls[2][1], tool_ttls[3][1], tool_ttls[1][1]}
\* per-pattern durations, in ticks (0.5 s, 1 s, 2 s)
TtlDurations == {5, 10, 20}

\* the tool_ttls dicts, in insertion order: a dict holds a pattern once
TtlTables ==
    {tool_ttls} \cup
    { t \in UNION { [1..n -> TtlPatterns \X TtlDurations] : n \in 0..MaxTableLen } :
        \A i, j \in 1..Len(t) : i # j => t[i][1] # t[j][1] }

\* "binance.orderbook_l1:TICKERUSDT".lower(): "orderbook", "orderbook_l1" and "ticker" occur in it
MixedKey == <<"b", "i", "n", "a", "n", "c", "e", ".", "o", "r", "d", "e", "r", "b", "o", "o", "k", "_", "l", "1", ":", "t", "i", "c", "k", "e", "r", "u", "s", "d", "t">>
\* the keys looked up: the two above, the mixed one, and
\* "binance.get_avg_price:BTCUSDT", in which no pattern of any table occurs
TtlKeys ==
    CacheKeys \cup
    { MixedKey,
      <<"b", "i", "n", "a", "n", "c", "e", ".", "g", "e", "t", "_", "a", "v", "g", "_",
        "p", "r", "i", "c", "e", ":", "B", "T", "C", "U", "S", "D", "T">> }

\* SimpleCache(ttl_seconds=5.0, tool_ttls=table)._get_ttl_for_key(key) is about to run
InitTtl ==
    /\ provider_clients = {}
    /\ is_healthy = <<>>
    /\ consecutive_failures = <<>>
    /\ call = Idle
    /\ invoked = <<>>
    /\ listed = [pc |-> "none"]
    /\ now = 0
    /\ cache = <<>>
    /\ last_op = [op |-> "none"]
    /\ \E table \in TtlTables, key \in TtlKeys :
            ttl_call = [pc |-> "called",
                        self |-> [default_ttl |-> default_ttl, tool_ttls |-> table],
                        key |-> key]
    /\ handlers = <<>>
    /\ norm = [pc |-> "none"]
    /\ document = [pc |-> "none"]

\* _get_ttl_for_key returns
ResolveTtl ==
    /\ ttl_call.pc = "called"
    /\ ttl_call' = [pc |-> "returned", self |-> ttl_call.self, key |-> ttl_call.key,
                    ret |-> ttl_for(ttl_call.self, ttl_call.key)]
    /\ UNCHANGED <<listed, provider_clients, is_healthy, consecutive_failures, call, invoked, now,
                   cache, last_op, handlers, norm, document>>

NextTtl == ResolveTtl

SpecTtl == InitTtl /\ [][NextTtl]_vars

---------------------------------------------------------------------------
(* document_registry.py, tools/fetch.py, tools/search.py *)
(* The fetch and search handlers are coroutines on one event loop: a       *)
(* handler runs without interruption from one await to the next, and the   *)
(* only await between the cache lookup and the cache write is the          *)
(* provider invocation.  A dict of market data is the set of its           *)
(* <<key, value>> items, the empty dict the empty set.                     *)

\* the clock of the handlers stops here (ticks): beyond the 5 ticks an
\* order book entry lives, within the 10 ticks of a ticker entry
MaxFetchTime == 6

\* DocumentRegistry.DOC_TYPE_TO_TOOL
DOC_TYPE_TO_TOOL ==
    \* "ticker": "binance.get_ticker"
    (<<"t", "i", "c", "k", "e", "r">> :>
        <<"b", "i", "n", "a", "n", "c", "e", ".", "g", "e", "t", "_", "t", "i", "c", "k", "e", "r">>) @@
    \* "orderbook": "binance.orderbook_l2"
    (<<"o", "r", "d", "e", "r", "b", "o", "o", "k">> :>
        <<"b", "i", "n", "a", "n", "c", "e", ".", "o", "r", "d", "e", "r", "b", "o", "o", "k", "_", "l", "2">>) @@
    \* "orderbook_l1": "binance.orderbook_l1"
    (<<"o", "r", "d", "e", "r", "b", "o", "o", "k", "_", "l", "1">> :>
        <<"b", "i", "n", "a", "n", "c", "e", ".", "o", "r", "d", "e", "r", "b", "o", "o", "k", "_", "l", "1">>) @@
    \* "orderbook_l2": "binance.orderbook_l2"
    (<<"o", "r", "d", "e", "r", "b", "o", "o", "k", "_", "l", "2">> :>
        <<"b", "i", "n", "a", "n", "c", "e", ".", "o", "r", "d", "e", "r", "b", "o", "o", "k", "_", "l", "2">>) @@
    \* "klines": "binance.get_klines"
    (<<"k", "l", "i", "n", "e", "s">> :>
        <<"b", "i", "n", "a", "n", "c", "e", ".", "g", "e", "t", "_", "k", "l", "i", "n", "e", "s">>) @@
    \* "trades": "binance.get_recent_trades"
    (<<"t", "r", "a", "d", "e", "s">> :>
        <<"b", "i", "n", "a", "n", "c", "e", ".", "g", "e", "t", "_", "r", "e", "c", "e", "n", "t", "_", "t", "r", "a", "d", "e", "s">>) @@
    \* "volume_profile": "binance.get_volume_profile"
    (<<"v", "o", "l", "u", "m", "e", "_", "p", "r", "o", "f", "i", "l", "e">> :>
        <<"b", "i", "n", "a", "n", "c", "e", ".", "g", "e", "t", "_", "v", "o", "l", "u", "m", "e", "_", "p", "r", "o", "f", "i", "l", "e">>) @@
    \* "orderbook_health": "binance.orderbook_health"
    (<<"o", "r", "d", "e", "r", "b", "o", "o", "k", "_", "h", "e", "a", "l", "t", "h">> :>
        <<"b", "i", "n", "a", "n", "c", "e", ".", "o", "r", "d", "e", "r", "b", "o", "o", "k", "_", "h", "e", "a", "l", "t", "h">>) @@
    \* "liquidity_vacuums": "binance.detect_liquidity_vacuums"
    (<<"l", "i", "q", "u", "i", "d", "i", "t", "y", "_", "v", "a", "c", "u", "u", "m", "s">> :>
        <<"b", "i", "n", "a", "n", "c", "e", ".", "d", "e", "t", "e", "c", "t", "_", "l", "i", "q", "u", "i", "d", "i", "t", "y", "_", "v", "a", "c", "u", "u", "m", "s">>) @@
    \* "market_anomalies": "binance.detect_market_anomalies"
    (<<"m", "a", "r", "k", "e", "t", "_", "a", "n", "o", "m", "a", "l", "i", "e", "s">> :>
        <<"b", "i", "n", "a", "n", "c", "e", ".", "d", "e", "t", "e", "c", "t", "_", "m", "a", "r", "k", "e", "t", "_", "a", "n", "o", "m", "a", "l", "i", "e", "s">>) @@
    \* "microstructure_health": "binance.get_microstructure_health"
    (<<"m", "i", "c", "r", "o", "s", "t", "r", "u", "c", "t", "u", "r", "e", "_", "h", "e", "a", "l", "t", "h">> :>
        <<"b", "i", "n", "a", "n", "c", "e", ".", "g", "e", "t", "_", "m", "i", "c", "r", "o", "s", "t", "r", "u", "c", "t", "u", "r", "e", "_", "h", "e", "a", "l", "t", "h">>)

\* DocumentRegistry.ANALYTICS_TO_TOOL
ANALYTICS_TO_TOOL ==
    \* "order_flow": "binance.get_volume_profile"
    (<<"o", "r", "d", "e", "r", "_", "f", "l", "o", "w">> :>
        <<"b", "i", "n", "a", "n", "c", "e", ".", "g", "e", "t", "_", "v", "o", "l", "u", "m", "e", "_", "p", "r", "o", "f", "i", "l", "e">>) @@
    \* "volume_profile": "binance.get_volume_profile"
    (<<"v", "o", "l", "u", "m", "e", "_", "p", "r", "o", "f", "i", "l", "e">> :>
        <<"b", "i", "n", "a", "n", "c", "e", ".", "g", "e", "t", "_", "v", "o", "l", "u", "m", "e", "_", "p", "r", "o", "f", "i", "l", "e">>) @@
    \* "orderbook_health": "binance.orderbook_health"
    (<<"o", "r", "d", "e", "r", "b", "o", "o", "k", "_", "h", "e", "a", "l", "t", "h">> :>
        <<"b", "i", "n", "a", "n", "c", "e", ".", "o", "r", "d", "e", "r", "b", "o", "o", "k", "_", "h", "e", "a", "l", "t", "h">>) @@
    \* "liquidity_vacuums": "binance.detect_liquidity_vacuums"
    (<<"l", "i", "q", "u", "i", "d", "i", "t", "y", "_", "v", "a", "c", "u", "u", "m", "s">> :>
        <<"b", "i", "n", "a", "n", "c", "e", ".", "d", "e", "t", "e", "c", "t", "_", "l", "i", "q", "u", "i", "d", "i", "t", "y", "_", "v", "a", "c", "u", "u", "m", "s">>) @@
    \* "market_anomalies": "binance.detect_market_anomalies"
    (<<"m", "a", "r", "k", "e", "t", "_", "a", "n", "o", "m", "a", "l", "i", "e", "s">> :>
        <<"b", "i", "n", "a", "n", "c", "e", ".", "d", "e", "t", "e", "c", "t", "_", "m", "a", "r", "k", "e", "t", "_", "a", "n", "o", "m", "a", "l", "i", "e", "s">>) @@
    \* "microstructure": "binance.get_microstructure_health"
    (<<"m", "i", "c", "r", "o", "s", "t", "r", "u", "c", "t", "u", "r", "e">> :>
        <<"b", "i", "n", "a", "n", "c", "e", ".", "g", "e", "t", "_", "m", "i", "c", "r", "o", "s", "t", "r", "u", "c", "t", "u", "r", "e", "_", "h", "e", "a", "l", "t", "h">>)

\* str.startswith
StartsWith(s, prefix) ==
    /\ Len(prefix) <= Len(s)
    /\ \A i \in 1..Len(prefix) : s[i] = prefix[i]

\* "analytics"
Analytics == <<"a", "n", "a", "l", "y", "t", "i", "c", "s">>

\* dict.get(key) of a table above; a missing key gives None, here the empty
\* string, which every test the code makes of the result (`if not tool_name`,
\* `and doc_id.analytics_type`, `if doc.interval`) treats as it treats None
Lookup(table, key) == IF key \in DOMAIN table THEN table[key] ELSE <<>>

\* DocumentRegistry.get_tool_for_document
get_tool_for_document(doc) ==
    IF StartsWith(doc.doc_type, Analytics) /\ doc.analytics_type # <<>>
    THEN Lookup(ANALYTICS_TO_TOOL, doc.analytics_type)
    ELSE Lookup(DOC_TYPE_TO_TOOL, doc.doc_type)

\* "klines", "orderbook"
Klines == <<"k", "l", "i", "n", "e", "s">>
Orderbook == <<"o", "r", "d", "e", "r", "b", "o", "o", "k">>

\* DocumentRegistry.create_tool_arguments: the dict sent to the provider
create_tool_arguments(doc_id) ==
    IF doc_id.doc_type = Klines /\ doc_id.interval # <<>>
    THEN [symbol |-> doc_id.symbol, interval |-> doc_id.interval, limit |-> 100]
    ELSE IF doc_id.doc_type \in {Orderbook, Orderbook \o <<"_", "l", "2">>}
    THEN [symbol |-> doc_id.symbol, limit |-> 20]
    ELSE [symbol |-> doc_id.symbol]

\* f"{tool_name}:{symbol}"
CacheKey(tool_name, symbol) == tool_name \o <<":">> \o symbol

\* "BTCUSDT"
BtcUsdt == <<"B", "T", "C", "U", "S", "D", "T">>

\* the parsed document ids the handlers are called with: "ticker:BTCUSDT",
\* "orderbook_l1:BTCUSDT", and "depth:BTCUSDT", a type that has no tool
Documents ==
    { [doc_type |-> t, symbol |-> BtcUsdt, interval |-> <<>>, analytics_type |-> <<>>] :
        t \in { <<"t", "i", "c", "k", "e", "r">>,
                <<"o", "r", "d", "e", "r", "b", "o", "o", "k", "_", "l", "1">>,
                <<"d", "e", "p", "t", "h">> } }

\* the parsed klines ids: "klines:BTCUSDT", as search makes it,
\* "klines:BTCUSDT:1h" and "klines:BTCUSDT:1d"
KlinesDocuments ==
    { [doc_type |-> Klines, symbol |-> BtcUsdt, interval |-> i, analytics_type |-> <<>>] :
        i \in { <<>>, <<"1", "h">>, <<"1", "d">> } }

\* the dicts a provider answers with under "result"
ProviderData == { {<<"price", "43250.50">>}, {<<"price", "43251.00">>}, {} }

\* what client.invoke returns to a handler
FetchResponses ==
    { [error |-> "Symbol not found"] } \cup { [result |-> d] : d \in ProviderData }

\* the handlers that run on the event loop
Handlers == {1, 2}
HandlerKinds == {"fetch", "search"}

\* the truth value of a dict: `if cached_data:`
Truthy(data) == data # {}

\* both set calls leave the union of the old and the new dict's items
HandlerSet_Merge(key, data) ==
    [k \in DOMAIN cache \cup {key} |->
        IF k = key
        THEN [data |-> (IF key \in DOMAIN cache THEN cache[key].data ELSE {}) \cup data,
              timestamp |-> now]
        ELSE cache[k]]

\* market_data_cache.set(cache_key, data), as SimpleCache.set
HandlerSet(key, data) ==
    [k \in DOMAIN cache \cup {key} |-> IF k = key THEN CacheEntry(data) ELSE cache[k]]

\* market_data_cache.get(cache_key) finds an entry that has not expired
Fresh(key) ==
    /\ key \in DOMAIN cache
    /\ ~Expired(now - cache[key].timestamp, _get_ttl_for_key(key))

\* fetch lines 67-98, search lines 73-102: from the tool lookup to the await
\* of client.invoke, or to the return when there is no tool or the cache
\* answers.  search parses the id it has made of a data type and a symbol,
\* which has no interval.  The lookup is SimpleCache.get: it deletes the
\* entry of the key when that entry has expired (cache.py 71-73), and
\* evicted records that it did.
Fetch(h, kind, doc) ==
    LET tool_name == get_tool_for_document(doc)
        cache_key == CacheKey(tool_name, doc.symbol)
        act == [kind |-> kind, doc |-> doc, tool_name |-> tool_name]
    IN /\ handlers[h].pc = "idle"
       /\ kind = "search" => doc.interval = <<>>
       /\ IF tool_name = <<>>
          THEN /\ handlers' = [handlers EXCEPT ![h] =
                    [pc |-> "done",
                     outcome |-> IF kind = "fetch" THEN "unsupported_document_type"
                                 ELSE "skipped"] @@ act]
               /\ UNCHANGED <<cache, last_op>>
          ELSE /\ cache' = IF cache_key \in DOMAIN cache /\ ~Fresh(cache_key)
                           THEN Without({cache_key}) ELSE cache
               /\ last_op' = [op |-> "get", key |-> cache_key, at |-> now, by |-> h,
                              hit |-> Fresh(cache_key)]
               /\ IF Fresh(cache_key) /\ Truthy(cache[cache_key].data)
                  THEN handlers' = [handlers EXCEPT ![h] =
                            [pc |-> "done", outcome |-> "document", cache_key |-> cache_key,
                             data |-> cache[cache_key].data, cached |-> TRUE] @@ act]
                  ELSE handlers' = [handlers EXCEPT ![h] =
                            [pc |-> "invoking", cache_key |-> cache_key,
                             evicted |-> cache_key \in DOMAIN cache /\ ~Fresh(cache_key),
                             tool_args |-> create_tool_arguments(doc),
                             timeout |-> IF kind = "fetch" THEN 30 ELSE 25] @@ act]
       /\ UNCHANGED <<listed, provider_clients, is_healthy, consecutive_failures, call, invoked, now,
                      ttl_call, norm, document>>

\* the result is taken and cached before the response is tested for an error
FetchInvokeReturns_CachesError(h, response) ==
    LET self == handlers[h]
        data == IF "error" \in DOMAIN response THEN {} ELSE response.result
    IN /\ self.pc = "invoking"
       /\ cache' = HandlerSet(self.cache_key, data)
       /\ last_op' = [op |-> "set", key |-> self.cache_key, at |-> now, by |-> h,
                      value |-> data]
       /\ IF "error" \in DOMAIN response
          THEN handlers' = [handlers EXCEPT ![h] =
                    [self EXCEPT !.pc = "done"] @@
                    [outcome |-> IF self.kind = "fetch" THEN "tool_invocation_failed"
                                 ELSE "skipped"]]
          ELSE handlers' = [handlers EXCEPT ![h] =
                    [self EXCEPT !.pc = "done"] @@
                    [outcome |-> "document", data |-> data, cached |-> FALSE]]
       /\ UNCHANGED <<listed, provider_clients, is_healthy, consecutive_failures, call, invoked, now,
                      ttl_call, norm, document>>

\* fetch lines 99-116, search lines 105-115: client.invoke returned
FetchInvokeReturns(h, response) ==
    LET self == handlers[h] IN
    /\ self.pc = "invoking"
    /\ IF "error" \in DOMAIN response
       THEN /\ handlers' = [handlers EXCEPT ![h] =
                    [self EXCEPT !.pc = "done"] @@
                    [outcome |-> IF self.kind = "fetch" THEN "tool_invocation_failed"
                                 ELSE "skipped"]]
            /\ UNCHANGED <<cache, last_op>>
       ELSE LET data == response.result IN
            /\ cache' = HandlerSet(self.cache_key, data)
            /\ last_op' = [op |-> "set", key |-> self.cache_key, at |-> now, by |-> h,
                           value |-> data]
            /\ handlers' = [handlers EXCEPT ![h] =
                    [self EXCEPT !.pc = "done"] @@
                    [outcome |-> "document", data |-> data, cached |-> FALSE]]
    /\ UNCHANGED <<listed, provider_clients, is_healthy, consecutive_failures, call, invoked, now,
                   ttl_call, norm, document>>

\* fetch lines 118-127, search lines 117-119: client.invoke raised
FetchInvokeRaises(h) ==
    /\ handlers[h].pc = "invoking"
    /\ handlers' = [handlers EXCEPT ![h] =
            [handlers[h] EXCEPT !.pc = "done"] @@
            [outcome |-> IF handlers[h].kind = "fetch" THEN "internal_error" ELSE "skipped"]]
    /\ UNCHANGED <<listed, provider_clients, is_healthy, consecutive_failures, call, invoked, now,
                   cache, last_op, ttl_call, norm, document>>

\* the handler has returned; the event loop may start it again
FetchDone(h) ==
    /\ handlers[h].pc = "done"
    /\ handlers' = [handlers EXCEPT ![h] = [pc |-> "idle"]]
    /\ UNCHANGED <<listed, provider_clients, is_healthy, consecutive_failures, call, invoked, now,
                   cache, last_op, ttl_call, norm, document>>

\* time.time() advances while the handlers run: the handlers that follow
\* read the clock MaxFetchTime ticks after the first ones
FetchTick ==
    /\ now < MaxFetchTime
    /\ now' = MaxFetchTime
    /\ UNCHANGED <<listed, provider_clients, is_healthy, consecutive_failures, call, invoked,
                   cache, last_op, ttl_call, handlers, norm, document>>

InitFetch ==
    /\ provider_clients = {"binance"}
    /\ is_healthy = [p \in {"binance"} |-> TRUE]
    /\ consecutive_failures = [p \in {"binance"} |-> 0]
    /\ call = Idle
    /\ invoked = <<>>
    /\ listed = [pc |-> "none"]
    /\ now = 0
    /\ cache = <<>>
    /\ last_op = [op |-> "none"]
    /\ ttl_call = [pc |-> "none"]
    /\ handlers = [h \in Handlers |-> [pc |-> "idle"]]
    /\ norm = [pc |-> "none"]
    /\ document = [pc |-> "none"]

NextFetch ==
    \/ \E h \in Handlers, kind \in HandlerKinds, doc \in Documents : Fetch(h, kind, doc)
    \/ \E h \in Handlers, response \in FetchResponses : FetchInvokeReturns(h, response)
    \/ \E h \in Handlers : FetchInvokeRaises(h)
    \/ \E h \in Handlers : FetchDone(h)
    \/ FetchTick

SpecFetch == InitFetch /\ [][NextFetch]_vars

\* the handlers, called with klines ids
NextKlines ==
    \/ \E h \in Handlers, kind \in HandlerKinds, doc \in KlinesDocuments : Fetch(h, kind, doc)
    \/ \E h \in Handlers, response \in FetchResponses : FetchInvokeReturns(h, response)
    \/ \E h \in Handlers : FetchInvokeRaises(h)
    \/ \E h \in Handlers : FetchDone(h)
    \/ FetchTick

SpecKlines == InitFetch /\ [][NextKlines]_vars

---------------------------------------------------------------------------
(* adapters/schema_adapter.py: numbers *)
(* A float is the rational number it stands for, the pair <<n, d>> of a    *)
(* numerator and a positive denominator in lowest terms; <<1, 0>> is inf,  *)
(* <<-1, 0>> is -inf and <<0, 0>> is nan.  The rounding of binary floating *)
(* point, its overflow and the sign of a zero are left out.  A str that    *)
(* the code hands to float(), int() or str() is the sequence of the code   *)
(* points of its characters, since the conversions read whitespace and     *)
(* digits of every script; any other str is a string.  A value handed to   *)
(* one of them carries its Python type,                                    *)
(* [t |-> "str" | "int" | "float" | "bool" | "NoneType", v |-> the value], *)
(* since what the conversion does depends on it.                           *)

Py(t, v) == [t |-> t, v |-> v]

RECURSIVE GCD(_, _)
GCD(a, b) == IF b = 0 THEN a ELSE GCD(b, a % b)

\* the number n / d in lowest terms with a positive denominator; for d = 0
\* the inf, -inf or nan that has the sign of n
Rat(n, d) ==
    IF d = 0 THEN <<IF n > 0 THEN 1 ELSE IF n < 0 THEN -1 ELSE 0, 0>>
    ELSE LET g == GCD(IF n < 0 THEN -n ELSE n, IF d < 0 THEN -d ELSE d)
             sign == IF d < 0 THEN -1 ELSE 1
         IN <<sign * (n \div g), sign * (d \div g)>>

Zero == <<0, 1>>
\* the float of an int
FromInt(n) == <<n, 1>>

\* inf + inf = inf, inf + -inf = nan, nan + x = nan
Plus(a, b) ==
    IF a[2] = 0 /\ b[2] = 0 THEN (IF a = b THEN a ELSE <<0, 0>>)
    ELSE Rat(a[1] * b[2] + b[1] * a[2], a[2] * b[2])
Minus(a, b) == Plus(a, <<-b[1], b[2]>>)
Times(a, b) == Rat(a[1] * b[1], a[2] * b[2])
\* a / b for b # 0 (Python raises ZeroDivisionError for b = 0)
Over(a, b) == Times(a, Rat(b[2], b[1]))
\* a > b; every comparison with nan is False
Greater(a, b) == a[1] * b[2] > b[1] * a[2]

\* the code point of a printable ASCII character.  Printable holds
\* the printable ASCII characters in the order of their code points, from
\* the space (32) to the tilde (126); the places of the double quote (34),
\* the backslash (92) and the grave accent (96), which no text here is
\* written with, are empty
ord(c) ==
    LET Printable ==
        <<" ", "!", "", "#", "$", "%", "&", "'", "(", ")", "*", "+", ",", "-", ".", "/",
        "0", "1", "2", "3", "4", "5", "6", "7", "8", "9", ":", ";", "<", "=", ">", "?",
        "@", "A", "B", "C", "D", "E", "F", "G", "H", "I", "J", "K", "L", "M", "N", "O",
        "P", "Q", "R", "S", "T", "U", "V", "W", "X", "Y", "Z", "[", "", "]", "^", "_",
        "", "a", "b", "c", "d", "e", "f", "g", "h", "i", "j", "k", "l", "m", "n", "o",
        "p", "q", "r", "s", "t", "u", "v", "w", "x", "y", "z", "{", "|", "}", "~">>
    IN 31 + CHOOSE i \in 1..95 : Printable[i] = c

\* the str written with printable ASCII characters, as its code points
Text(chars) == [i \in 1..Len(chars) |-> ord(chars[i])]

RECURSIVE DigitsValue(_)
\* the int written by a run of the digits 0..9 (0 for the empty run)
DigitsValue(s) ==
    IF s = <<>> THEN 0
    ELSE 10 * DigitsValue(SubSeq(s, 1, Len(s) - 1)) + (s[Len(s)] - 48)

RECURSIVE Pow10(_)
Pow10(k) == IF k = 0 THEN 1 ELSE 10 * Pow10(k - 1)

Raised(exc) == [ok |-> FALSE, exc |-> exc]

\* what float() and int() make of a str before they read it: a whitespace
\* character beyond ASCII becomes a space, a decimal digit of any script
\* the ASCII digit of its value, and every other character stays
ToAscii(s) ==
    \* the characters beyond ASCII that are whitespace: next line, no-break
    \* space, ogham space mark, the spaces U+2000..U+200A, line and paragraph
    \* separator, narrow no-break space, medium mathematical space, ideographic
    \* space
    LET Spaces == {133, 160, 5760} \cup (8192..8202) \cup {8232, 8233, 8239, 8287, 12288}
        \* the code points of the digit zero of every script that has decimal digits
        \* (Unicode 14.0, the version of Python 3.11); the nine code points after a
        \* zero are its digits one to nine
        DecimalZeros ==
            {48, 1632, 1776, 1984, 2406, 2534, 2662, 2790, 2918, 3046, 3174, 3302, 3430, 3558,
            3664, 3792, 3872, 4160, 4240, 6112, 6160, 6470, 6608, 6784, 6800, 6992, 7088, 7232,
            7248, 42528, 43216, 43264, 43472, 43504, 43600, 44016, 65296, 66720, 68912, 69734,
            69872, 69942, 70096, 70384, 70736, 70864, 71248, 71360, 71472, 71904, 72016, 72784,
            73040, 73120, 92768, 92864, 93008, 120782, 120792, 120802, 120812, 120822, 123200,
            123632, 125264, 130032}
    IN [i \in 1..Len(s) |->
            IF s[i] \in Spaces THEN 32
            ELSE IF \E z \in DecimalZeros : s[i] - z \in 0..9
            THEN 48 + s[i] - (CHOOSE z \in DecimalZeros : s[i] - z \in 0..9)
            ELSE s[i]]

\* the text without the blanks at its two ends.  Blanks are the ASCII
\* characters skipped there: tab, line feed, vertical tab, form feed,
\* carriage return and space; the separators 0x1C..0x1F are not among them
strip(s) ==
    LET Blanks == (9..13) \cup {32}
        kept == { i \in 1..Len(s) : s[i] \notin Blanks }
    IN IF kept = {} THEN <<>>
       ELSE SubSeq(s, CHOOSE i \in kept : \A j \in kept : i <= j,
                      CHOOSE i \in kept : \A j \in kept : i >= j)

\* a run of digits in which single underscores may stand between two digits:
\* its value and the number of its digits, or ValueError
DigitPart(s) ==
    IF /\ s # <<>>
       /\ \A i \in 1..Len(s) : s[i] = ord("_") \/ s[i] \in 48..57
       /\ s[1] # ord("_")
       /\ s[Len(s)] # ord("_")
       /\ \A i \in 1..(Len(s) - 1) : ~(s[i] = ord("_") /\ s[i + 1] = ord("_"))
    THEN LET Digits(digits) == [ok |-> TRUE, val |-> DigitsValue(digits), len |-> Len(digits)]
         IN Digits(SelectSeq(s, LAMBDA c : c # ord("_")))
    ELSE Raised("ValueError")

\* float(s) of a str: [whitespace] [+|-] (inf | infinity | nan, in any case, or
\* digits[.digits] or .digits with an optional exponent e[+|-]digits)
\* [whitespace]; ValueError for every other string
ParseFloat(s) ==
    LET Scaled(mantissa, exponent) ==
            IF exponent >= 0 THEN Times(mantissa, FromInt(Pow10(exponent)))
            ELSE Over(mantissa, FromInt(Pow10(-exponent)))
        SignedDigits(negative, digits) ==
            IF ~digits.ok THEN digits
            ELSE [ok |-> TRUE, val |-> IF negative THEN -digits.val ELSE digits.val]
        Exponent(x) ==
            IF x # <<>> /\ x[1] \in {ord("+"), ord("-")}
            THEN SignedDigits(x[1] = ord("-"), DigitPart(Tail(x)))
            ELSE DigitPart(x)
        Joined(whole, frac) ==
            IF ~whole.ok THEN whole
            ELSE IF ~frac.ok THEN frac
            ELSE [ok |-> TRUE,
                  val |-> Rat(whole.val * Pow10(frac.len) + frac.val, Pow10(frac.len))]
        Fraction(whole, frac) ==
            IF whole = <<>> /\ frac = <<>> THEN Raised("ValueError")
            ELSE Joined(IF whole = <<>> THEN [ok |-> TRUE, val |-> 0, len |-> 0]
                        ELSE DigitPart(whole),
                        IF frac = <<>> THEN [ok |-> TRUE, val |-> 0, len |-> 0]
                        ELSE DigitPart(frac))
        Dotted(m, dots) ==
            IF Cardinality(dots) > 1 THEN Raised("ValueError")
            ELSE IF dots = {} THEN Joined(DigitPart(m), [ok |-> TRUE, val |-> 0, len |-> 0])
            ELSE Fraction(SubSeq(m, 1, (CHOOSE i \in dots : TRUE) - 1),
                          SubSeq(m, (CHOOSE i \in dots : TRUE) + 1, Len(m)))
        Mantissa(m) == Dotted(m, { i \in 1..Len(m) : m[i] = ord(".") })
        Both(m, x) ==
            IF ~m.ok THEN m
            ELSE IF ~x.ok THEN x
            ELSE [ok |-> TRUE, val |-> Scaled(m.val, x.val)]
        Marked(u, marks) ==
            IF marks = {} THEN Mantissa(u)
            ELSE Both(Mantissa(SubSeq(u, 1, (CHOOSE i \in marks : \A j \in marks : i <= j) - 1)),
                      Exponent(SubSeq(u, (CHOOSE i \in marks : \A j \in marks : i <= j) + 1,
                                      Len(u))))
        Decimal(u) == Marked(u, { i \in 1..Len(u) : u[i] \in {ord("e"), ord("E")} })
        Named(u, lowered) ==
            IF lowered \in { Text(<<"i", "n", "f">>),
                             Text(<<"i", "n", "f", "i", "n", "i", "t", "y">>) }
            THEN [ok |-> TRUE, val |-> <<1, 0>>]
            ELSE IF lowered = Text(<<"n", "a", "n">>) THEN [ok |-> TRUE, val |-> <<0, 0>>]
            ELSE Decimal(u)
        \* the letters A..Z (65..90) are read as a..z
        Unsigned(u) ==
            Named(u, [i \in 1..Len(u) |-> IF u[i] \in 65..90 THEN u[i] + 32 ELSE u[i]])
        Signed(negative, magnitude) ==
            IF ~magnitude.ok THEN magnitude
            ELSE [ok |-> TRUE, val |-> IF negative THEN <<-magnitude.val[1], magnitude.val[2]>>
                                       ELSE magnitude.val]
        Stripped(body) ==
            IF body # <<>> /\ body[1] \in {ord("+"), ord("-")}
            THEN Signed(body[1] = ord("-"), Unsigned(Tail(body)))
            ELSE Unsigned(body)
    IN Stripped(strip(ToAscii(s)))

\* int(s) of a str: [whitespace] [+|-] digits [whitespace] in base 10
ParseInt(s) ==
    LET Signed(negative, digits) ==
            IF ~digits.ok THEN digits
            ELSE [ok |-> TRUE, val |-> IF negative THEN -digits.val ELSE digits.val]
        Stripped(body) ==
            IF body # <<>> /\ body[1] \in {ord("+"), ord("-")}
            THEN Signed(body[1] = ord("-"), DigitPart(Tail(body)))
            ELSE Signed(FALSE, DigitPart(body))
    IN Stripped(strip(ToAscii(s)))

\* float(x): the value, or the exception Python raises
float(x) ==
    CASE x.t = "float" -> [ok |-> TRUE, val |-> x.v]
      [] x.t = "int" -> [ok |-> TRUE, val |-> FromInt(x.v)]
      [] x.t = "bool" -> [ok |-> TRUE, val |-> FromInt(IF x.v THEN 1 ELSE 0)]
      [] x.t = "str" -> ParseFloat(x.v)
      [] OTHER -> Raised("TypeError")

\* int(x): a float is cut off towards zero, inf and nan have no int
int(x) ==
    CASE x.t = "int" -> [ok |-> TRUE, val |-> x.v]
      [] x.t = "bool" -> [ok |-> TRUE, val |-> IF x.v THEN 1 ELSE 0]
      [] x.t = "float" ->
            IF x.v = <<0, 0>> THEN Raised("ValueError")
            ELSE IF x.v[2] = 0 THEN Raised("OverflowError")
            ELSE [ok |-> TRUE, val |-> IF x.v[1] >= 0 THEN x.v[1] \div x.v[2]
                                       ELSE -((-x.v[1]) \div x.v[2])]
      [] x.t = "str" -> ParseInt(x.v)
      [] OTHER -> Raised("TypeError")

\* str(x), which never raises.  A float is written as repr writes it: the
\* decimal digits of its value, with an exponent when the value is below
\* 0.0001 or at least 10^16
str(x) ==
    LET RECURSIVE IntText(_)
        IntText(n) == IF n < 0 THEN <<ord("-")>> \o IntText(-n)
                      ELSE IF n < 10 THEN <<48 + n>>
                      ELSE IntText(n \div 10) \o <<48 + (n % 10)>>
        RECURSIVE Frac(_, _, _)
        \* the digits after the point of rem / d, for rem < d
        Frac(rem, d, count) ==
            IF rem = 0 \/ count = 0 THEN <<>>
            ELSE <<48 + ((rem * 10) \div d)>> \o Frac((rem * 10) % d, d, count - 1)
        RECURSIVE Shift(_, _)
        \* the least k with n * 10^k >= d
        Shift(n, d) == IF n >= d THEN 0 ELSE 1 + Shift(10 * n, d)
        Plain(n, d, digits) ==
            IntText(n \div d) \o <<ord(".")>> \o (IF digits = <<>> THEN <<48>> ELSE digits)
        Mantissa(n, d, digits) ==
            IntText(n \div d) \o (IF digits = <<>> THEN <<>> ELSE <<ord(".")>> \o digits)
        Exp(e) ==
            <<ord("e"), IF e < 0 THEN ord("-") ELSE ord("+")>> \o
            (IF e > -10 /\ e < 10 THEN <<48>> ELSE <<>>) \o IntText(IF e < 0 THEN -e ELSE e)
        Scientific(n, d, e) ==
            IF e >= 0 THEN Mantissa(n, d * Pow10(e), Frac(n % (d * Pow10(e)), d * Pow10(e), 16))
                           \o Exp(e)
            ELSE Mantissa(n * Pow10(-e), d, Frac((n * Pow10(-e)) % d, d, 16)) \o Exp(e)
        Positive(n, d, e) ==
            IF e >= -4 /\ e < 16 THEN Plain(n, d, Frac(n % d, d, 17)) ELSE Scientific(n, d, e)
        Magnitude(n, d) ==
            Positive(n, d, IF n >= d THEN Len(IntText(n \div d)) - 1 ELSE -Shift(n, d))
        FloatText(r) ==
            IF r = <<0, 0>> THEN Text(<<"n", "a", "n">>)
            ELSE IF r = <<1, 0>> THEN Text(<<"i", "n", "f">>)
            ELSE IF r = <<-1, 0>> THEN Text(<<"-", "i", "n", "f">>)
            ELSE IF r[1] = 0 THEN Text(<<"0", ".", "0">>)
            ELSE IF r[1] < 0 THEN <<ord("-")>> \o Magnitude(-r[1], r[2])
            ELSE Magnitude(r[1], r[2])
    IN CASE x.t = "str" -> x.v
         [] x.t = "int" -> IntText(x.v)
         [] x.t = "float" -> FloatText(x.v)
         [] x.t = "bool" -> IF x.v THEN Text(<<"T", "r", "u", "e">>)
                            ELSE Text(<<"F", "a", "l", "s", "e">>)
         [] OTHER -> Text(<<"N", "o", "n", "e">>)

---------------------------------------------------------------------------
(* adapters/schema_adapter.py: the normalizers *)
(* A provider response is [type |-> "dict", items |-> the dict] or         *)
(* [type |-> "list", items |-> the list].  A normalizer yields             *)
(* [ok |-> TRUE, value |-> the dict it returns, is_raw |-> whether that    *)
(* dict is the very object it was given], or [ok |-> FALSE, exc |-> the    *)
(* exception it raises].  `clock` is int(time.time() * 1000).  The         *)
(* statements of a normalizer are evaluated in the order of the source:    *)
(* the exception raised is that of the first one that fails.               *)

\* a dict the normalizer has built
Built(value) == [ok |-> TRUE, value |-> value, is_raw |-> FALSE, type |-> "dict"]

\* dict.get(key, default)
GetOr(d, key, default) == IF key \in DOMAIN d THEN d[key] ELSE default

\* d[key]
Item(d, key) == IF key \in DOMAIN d THEN [ok |-> TRUE, val |-> d[key]] ELSE Raised("KeyError")

\* float(d[key])
FloatAt(d, key) == IF key \in DOMAIN d THEN float(d[key]) ELSE Raised("KeyError")

\* float(d.get(key, default))
FloatOr(d, key, default) == float(IF key \in DOMAIN d THEN d[key] ELSE default)

\* what the steps of a function, in source order, come to: the first one
\* that raised, or [ok |-> TRUE] when none did
FirstRaised(steps) ==
    IF \A i \in DOMAIN steps : steps[i].ok THEN [ok |-> TRUE]
    ELSE steps[CHOOSE i \in DOMAIN steps : ~steps[i].ok /\ \A j \in 1..(i - 1) : steps[j].ok]

\* optional fields such as those of lines 158-165: each source key that is
\* present is parsed and stored under its unified name; names is the
\* sequence of [dst, src] in source order
ParsedOptionals(d, names) ==
    LET Parsed(present, steps, raised) ==
            IF ~raised.ok THEN raised
            ELSE Built([dst \in { present[i].dst : i \in DOMAIN present } |->
                            steps[CHOOSE i \in DOMAIN present : present[i].dst = dst].val])
        Stepped(present, steps) == Parsed(present, steps, FirstRaised(steps))
        Present(present) == Stepped(present, [i \in DOMAIN present |-> float(d[present[i].src])])
    IN Present(SelectSeq(names, LAMBDA name : name.src \in DOMAIN d))

\* the spread is computed for every mid but 0
SpreadBps_NonZeroMid(bid, ask, mid) ==
    IF mid # Zero THEN Times(Over(Minus(ask, bid), mid), FromInt(10000)) ELSE Zero

\* lines 143 and 258: ((ask - bid) / mid) * 10000.0 if mid > 0 else 0.0
SpreadBps(bid, ask, mid) ==
    IF Greater(mid, Zero) THEN Times(Over(Minus(ask, bid), mid), FromInt(10000)) ELSE Zero

_normalize_binance_ticker(raw, clock) ==
    LET d == raw.items
        Normalized(bid, ask, volume, symbol, optional, raised) ==
            IF ~raised.ok THEN raised
            ELSE LET mid == Over(Plus(bid.val, ask.val), FromInt(2)) IN
                 Built(optional.value @@
                       [bid |-> bid.val,
                        ask |-> ask.val,
                        mid |-> mid,
                        spread_bps |-> SpreadBps(bid.val, ask.val, mid),
                        volume |-> volume.val,
                        timestamp |-> GetOr(d, "closeTime", clock),
                        venue_symbol |-> symbol.val])
        Stepped(bid, ask, volume, symbol, optional) ==
            Normalized(bid, ask, volume, symbol, optional,
                       FirstRaised(<<bid, ask, volume, symbol, optional>>))
    IN IF raw.type # "dict" THEN Raised("TypeError")
       ELSE Stepped(FloatAt(d, "bidPrice"), FloatAt(d, "askPrice"), FloatAt(d, "volume"),
                    Item(d, "symbol"),
                    ParsedOptionals(d, <<[dst |-> "last", src |-> "lastPrice"],
                                         [dst |-> "quote_volume", src |-> "quoteVolume"],
                                         [dst |-> "price_change_percent",
                                          src |-> "priceChangePercent"]>>))

\* the optional keys of lines 220-227, copied as they are
CopiedOptionals(d, names) ==
    [dst \in { k \in DOMAIN names : names[k] \in DOMAIN d } |-> d[names[dst]]]

\* `"best_bid" not in raw` looks among the keys of a dict and among the items
\* of a list; raw["best_bid"] on a list is a TypeError
_normalize_binance_orderbook_l1(raw, clock) ==
    LET d == raw.items
        Normalized(best_bid, best_ask) ==
            IF ~best_bid.ok THEN best_bid
            ELSE IF ~best_ask.ok THEN best_ask
            ELSE Built(CopiedOptionals(d, [venue_symbol |-> "symbol",
                                           bid_volume |-> "bid_volume",
                                           ask_volume |-> "ask_volume"]) @@
                       [best_bid |-> best_bid.val,
                        best_ask |-> best_ask.val,
                        spread_bps |-> GetOr(d, "spread_bps", Zero),
                        microprice |-> GetOr(d, "microprice",
                                             Over(Plus(best_bid.val, best_ask.val), FromInt(2))),
                        imbalance |-> GetOr(d, "imbalance_ratio", Zero),
                        timestamp |-> GetOr(d, "timestamp", clock)])
    IN IF raw.type = "list"
       THEN (IF \A key \in {"best_bid", "best_ask"} : \E i \in DOMAIN d : d[i] = key
             THEN Raised("TypeError") ELSE Raised("ValueError"))
       ELSE IF "best_bid" \notin DOMAIN d \/ "best_ask" \notin DOMAIN d THEN Raised("ValueError")
       ELSE Normalized(float(d["best_bid"]), float(d["best_ask"]))

\* lines 242-251: [{"price": float(level[0]), "quantity": float(level[1])} for level in levels]
Levels(levels) ==
    LET At(level, i) == IF Len(level) >= i THEN float(level[i]) ELSE Raised("IndexError")
        Priced(price, quantity) ==
            IF ~price.ok THEN price
            ELSE IF ~quantity.ok THEN quantity
            ELSE [ok |-> TRUE, val |-> [price |-> price.val, quantity |-> quantity.val]]
        Normalized(steps, raised) ==
            IF ~raised.ok THEN raised
            ELSE Built([i \in DOMAIN steps |-> steps[i].val])
        Stepped(steps) == Normalized(steps, FirstRaised(steps))
    IN Stepped([i \in 1..Len(levels) |-> Priced(At(levels[i], 1), At(levels[i], 2))])

\* `not raw.get(key)`: the key is missing or its list is empty
Empty(d, key) == key \notin DOMAIN d \/ d[key] = <<>>

_normalize_binance_orderbook_l2(raw, clock) ==
    LET d == raw.items
        Normalized(bids, asks) ==
            IF ~bids.ok THEN bids
            ELSE IF ~asks.ok THEN asks
            ELSE LET bid_price == bids.value[1].price
                     ask_price == asks.value[1].price
                     mid == Over(Plus(bid_price, ask_price), FromInt(2))
                 IN Built(CopiedOptionals(d, [update_id |-> "lastUpdateId"]) @@
                          [bids |-> bids.value,
                           asks |-> asks.value,
                           mid |-> mid,
                           spread_bps |-> SpreadBps(bid_price, ask_price, mid),
                           timestamp |-> clock])
    IN IF raw.type # "dict" THEN Raised("AttributeError")
       ELSE IF Empty(d, "bids") \/ Empty(d, "asks") THEN Raised("ValueError")
       ELSE Normalized(Levels(d["bids"]), Levels(d["asks"]))

\* lines 666-672: float(raw.get(key, default)) of each metric
_normalize_binance_orderbook_health(raw, clock) ==
    LET d == raw.items
        Normalized(steps, raised) ==
            IF ~raised.ok THEN raised
            ELSE Built([spread_quality |-> steps[1].val,
                        depth_imbalance |-> steps[2].val,
                        health_score |-> steps[3].val,
                        bid_depth |-> steps[4].val,
                        ask_depth |-> steps[5].val])
        Stepped(steps) == Normalized(steps, FirstRaised(steps))
    IN IF raw.type # "dict" THEN Raised("AttributeError")
       ELSE Stepped(<<FloatOr(d, "spread_quality", Py("int", 0)),
                      FloatOr(d, "depth_imbalance", Py("float", Rat(1, 2))),
                      FloatOr(d, "health_score", Py("int", 0)),
                      FloatOr(d, "bid_depth", Py("int", 0)),
                      FloatOr(d, "ask_depth", Py("int", 0))>>)

\* `return raw`: the object given, whatever it is
PassThrough(raw, clock) == [ok |-> TRUE, value |-> raw.items, is_raw |-> TRUE, type |-> raw.type]

_normalize_binance_volume_profile(raw, clock) == PassThrough(raw, clock)
_normalize_binance_market_anomalies(raw, clock) == PassThrough(raw, clock)
_normalize_binance_microstructure_health(raw, clock) == PassThrough(raw, clock)

\* lines 309-331: one kline, given as an array [open_time, open, high, low,
\* close, volume, close_time, ...] or as an object
Kline(kline) ==
    LET k == kline.items
        Normalized(open_time, close_time, steps, raised) ==
            IF ~raised.ok THEN raised
            ELSE Built([open_time |-> open_time,
                        open |-> steps[2].val,
                        high |-> steps[3].val,
                        low |-> steps[4].val,
                        close |-> steps[5].val,
                        volume |-> steps[6].val,
                        close_time |-> close_time])
        Array(steps) == Normalized(steps[1].val, steps[7].val, steps, FirstRaised(steps))
        Object(steps) ==
            Normalized(GetOr(k, "open_time", GetOr(k, "openTime", 0)),
                       GetOr(k, "close_time", GetOr(k, "closeTime", 0)),
                       steps, FirstRaised(steps))
    IN IF kline.type = "list"
       THEN Array([i \in 1..7 |->
                     IF i \in {1, 7}
                     THEN (IF Len(k) >= i THEN int(k[i]) ELSE [ok |-> TRUE, val |-> 0])
                     ELSE (IF Len(k) >= i THEN float(k[i]) ELSE [ok |-> TRUE, val |-> Zero])])
       \* the first place is that of the open time, which an object's is copied
       ELSE Object(<<[ok |-> TRUE],
                     FloatOr(k, "open", Py("int", 0)),
                     FloatOr(k, "high", Py("int", 0)),
                     FloatOr(k, "low", Py("int", 0)),
                     FloatOr(k, "close", Py("int", 0)),
                     FloatOr(k, "volume", Py("int", 0))>>)

_normalize_binance_klines(raw, clock) ==
    LET metadata == IF raw.type = "dict"
                    THEN CopiedOptionals(raw.items, [interval |-> "interval",
                                                     venue_symbol |-> "symbol"])
                    ELSE <<>>
        Normalized(steps, raised) ==
            IF ~raised.ok THEN raised
            ELSE Built(metadata @@ [klines |-> [i \in DOMAIN steps |-> steps[i].value]])
        Stepped(steps) == Normalized(steps, FirstRaised(steps))
        Each(klines_data) == Stepped([i \in 1..Len(klines_data) |-> Kline(klines_data[i])])
    IN Each(IF raw.type = "list" THEN raw.items
            ELSE GetOr(raw.items, "klines", GetOr(raw.items, "data", <<>>)))

\* "0.0"
ZeroText == Py("str", Text(<<"0", ".", "0">>))

_normalize_binance_order(raw, clock) ==
    LET d == raw.items
        Normalized(orig_qty, executed_qty, floats, raised) ==
            IF ~raised.ok THEN raised
            ELSE Built(floats.value @@
                       CopiedOptionals(d, [client_order_id |-> "clientOrderId",
                                           time_in_force |-> "timeInForce"]) @@
                       [order_id |-> str(d["orderId"]),
                        instrument |-> d["symbol"],
                        side |-> d["side"],
                        type |-> d["type"],
                        status |-> d["status"],
                        quantity |-> orig_qty.val,
                        filled_quantity |-> executed_qty.val,
                        remaining_quantity |-> Minus(orig_qty.val, executed_qty.val),
                        timestamp |-> GetOr(d, "transactTime", clock)])
        Stepped(orig_qty, executed_qty, floats) ==
            Normalized(orig_qty, executed_qty, floats,
                       FirstRaised(<<orig_qty, executed_qty, Item(d, "orderId"), Item(d, "symbol"),
                                     Item(d, "side"), Item(d, "type"), Item(d, "status"),
                                     floats>>))
    IN IF raw.type # "dict" THEN Raised("AttributeError")
       ELSE Stepped(FloatOr(d, "origQty", Py("int", 0)),
                    FloatOr(d, "executedQty", Py("int", 0)),
                    ParsedOptionals(d, <<[dst |-> "price", src |-> "price"]>> \o
                                       (IF "avgPrice" \in DOMAIN d /\ d["avgPrice"] # ZeroText
                                        THEN <<[dst |-> "average_price", src |-> "avgPrice"]>>
                                        ELSE <<>>)))

\* lines 471-482: one balance entry, with whether it is kept
Balance(balance) ==
    LET Summed(free, locked, total) ==
            IF ~Greater(total, Zero) THEN [ok |-> TRUE, kept |-> FALSE]
            ELSE IF "asset" \notin DOMAIN balance THEN Raised("KeyError")
            ELSE [ok |-> TRUE, kept |-> TRUE,
                  value |-> [asset |-> balance["asset"], free |-> free,
                             locked |-> locked, total |-> total]]
        Parsed(free, locked) ==
            IF ~free.ok THEN free
            ELSE IF ~locked.ok THEN locked
            ELSE Summed(free.val, locked.val, Plus(free.val, locked.val))
    IN Parsed(FloatAt(balance, "free"), FloatAt(balance, "locked"))

RECURSIVE KeptBalances(_)
\* the balances list after the loop of lines 470-482
KeptBalances(balances) ==
    IF balances = <<>> THEN <<>>
    ELSE (IF Balance(Head(balances)).kept THEN <<Balance(Head(balances)).value>> ELSE <<>>)
         \o KeptBalances(Tail(balances))

_normalize_binance_account(raw, clock) ==
    LET d == raw.items
        Normalized(given, raised) ==
            IF ~raised.ok THEN raised
            ELSE Built([can_trade |-> GetOr(d, "canTrade", FALSE),
                        can_withdraw |-> GetOr(d, "canWithdraw", FALSE),
                        can_deposit |-> GetOr(d, "canDeposit", FALSE),
                        balances |-> KeptBalances(given),
                        timestamp |-> GetOr(d, "updateTime", clock)])
        Each(given) == Normalized(given, FirstRaised([i \in 1..Len(given) |-> Balance(given[i])]))
    IN IF raw.type # "dict" THEN Raised("AttributeError")
       ELSE Each(GetOr(d, "balances", <<>>))

_normalize_binance_trade(raw, clock) ==
    LET d == raw.items
        Normalized(price, qty, quoteQty, commission, raised) ==
            IF ~raised.ok THEN raised
            ELSE Built([trade_id |-> str(d["id"]),
                        order_id |-> str(d["orderId"]),
                        instrument |-> d["symbol"],
                        side |-> IF GetOr(d, "isBuyer", FALSE) THEN "BUY" ELSE "SELL",
                        price |-> price.val,
                        quantity |-> qty.val,
                        quote_quantity |-> quoteQty.val,
                        fee |-> commission.val,
                        fee_asset |-> GetOr(d, "commissionAsset", ""),
                        timestamp |-> d["time"]])
        Stepped(price, qty, quoteQty, commission) ==
            Normalized(price, qty, quoteQty, commission,
                       FirstRaised(<<Item(d, "id"), Item(d, "orderId"), Item(d, "symbol"),
                                     price, qty, quoteQty, commission, Item(d, "time")>>))
    IN IF raw.type # "dict" THEN Raised("TypeError")
       ELSE Stepped(FloatAt(d, "price"), FloatAt(d, "qty"), FloatAt(d, "quoteQty"),
                    FloatOr(d, "commission", Py("int", 0)))

\* lines 586-594: the fields one filter item sets
FilterFields(filter_item) ==
    LET filter_type == GetOr(filter_item, "filterType", "None")
        Normalized(names, steps, raised) ==
            IF ~raised.ok THEN raised
            ELSE Built([dst \in { names[i].dst : i \in DOMAIN names } |->
                            steps[CHOOSE i \in DOMAIN names : names[i].dst = dst].val])
        Stepped(names, steps) == Normalized(names, steps, FirstRaised(steps))
        Named(names) ==
            Stepped(names, [i \in DOMAIN names |-> FloatOr(filter_item, names[i].src, Py("int", 0))])
    IN Named(IF filter_type = "PRICE_FILTER"
             THEN <<[dst |-> "min_price", src |-> "minPrice"],
                    [dst |-> "max_price", src |-> "maxPrice"],
                    [dst |-> "price_tick_size", src |-> "tickSize"]>>
             ELSE IF filter_type = "LOT_SIZE"
             THEN <<[dst |-> "min_quantity", src |-> "minQty"],
                    [dst |-> "max_quantity", src |-> "maxQty"],
                    [dst |-> "quantity_step_size", src |-> "stepSize"]>>
             ELSE <<>>)

RECURSIVE Filters(_)
\* the loop of lines 585-594: a later filter overwrites what an earlier one set
Filters(filters) ==
    IF filters = <<>> THEN <<>>
    ELSE FilterFields(filters[Len(filters)]).value @@ Filters(SubSeq(filters, 1, Len(filters) - 1))

_normalize_binance_exchange_info(raw, clock) ==
    LET d == raw.items
        Normalized(filters, raised) ==
            IF ~raised.ok THEN raised
            ELSE Built(Filters(filters) @@
                       [instrument |-> d["symbol"],
                        status |-> d["status"],
                        base_asset |-> d["baseAsset"],
                        quote_asset |-> d["quoteAsset"]])
        Each(filters) ==
            Normalized(filters,
                       FirstRaised(<<Item(d, "symbol"), Item(d, "status"), Item(d, "baseAsset"),
                                     Item(d, "quoteAsset")>> \o
                                   [i \in 1..Len(filters) |-> FilterFields(filters[i])]))
    IN IF raw.type # "dict" THEN Raised("TypeError")
       ELSE Each(GetOr(d, "filters", <<>>))

\* the side is BUY when the buyer is the maker
RecentTrade_MakerIsBuy(trade) ==
    LET Normalized(price, qty, quoteQty, raised) ==
            IF ~raised.ok THEN raised
            ELSE Built([trade_id |-> str(trade["id"]),
                        price |-> price.val,
                        quantity |-> qty.val,
                        quote_quantity |-> quoteQty.val,
                        side |-> IF GetOr(trade, "isBuyerMaker", FALSE) THEN "BUY" ELSE "SELL",
                        timestamp |-> trade["time"]])
        Stepped(price, qty, quoteQty) ==
            Normalized(price, qty, quoteQty,
                       FirstRaised(<<Item(trade, "id"), price, qty, quoteQty, Item(trade, "time")>>))
    IN Stepped(FloatAt(trade, "price"), FloatAt(trade, "qty"),
               FloatOr(trade, "quoteQty", Py("int", 0)))

\* lines 636-643: one public trade
RecentTrade(trade) ==
    LET Normalized(price, qty, quoteQty, raised) ==
            IF ~raised.ok THEN raised
            ELSE Built([trade_id |-> str(trade["id"]),
                        price |-> price.val,
                        quantity |-> qty.val,
                        quote_quantity |-> quoteQty.val,
                        side |-> IF GetOr(trade, "isBuyerMaker", FALSE) THEN "SELL" ELSE "BUY",
                        timestamp |-> trade["time"]])
        Stepped(price, qty, quoteQty) ==
            Normalized(price, qty, quoteQty,
                       FirstRaised(<<Item(trade, "id"), price, qty, quoteQty, Item(trade, "time")>>))
    IN Stepped(FloatAt(trade, "price"), FloatAt(trade, "qty"),
               FloatOr(trade, "quoteQty", Py("int", 0)))

_normalize_binance_recent_trades(raw, clock) ==
    LET Normalized(steps, raised) ==
            IF ~raised.ok THEN raised
            ELSE Built([trades |-> [i \in DOMAIN steps |-> steps[i].value]])
        Stepped(steps) == Normalized(steps, FirstRaised(steps))
        Each(trades_list) == Stepped([i \in 1..Len(trades_list) |-> RecentTrade(trades_list[i])])
    IN Each(IF raw.type = "list" THEN raw.items ELSE <<raw.items>>)

\* self._normalizers: venue -> the data types that have a normalizer
_normalizers ==
    [venue \in {"binance"} |->
        {"ticker", "orderbook_l1", "orderbook_l2", "klines", "order", "account", "trade",
         "exchange_info", "recent_trades", "orderbook_health", "volume_profile",
         "market_anomalies", "microstructure_health"}]

\* normalizer(raw_response), for normalizer = self._normalizers["binance"][data_type]
Transform(data_type, raw, clock) ==
    CASE data_type = "ticker" -> _normalize_binance_ticker(raw, clock)
      [] data_type = "orderbook_l1" -> _normalize_binance_orderbook_l1(raw, clock)
      [] data_type = "orderbook_l2" -> _normalize_binance_orderbook_l2(raw, clock)
      [] data_type = "klines" -> _normalize_binance_klines(raw, clock)
      [] data_type = "order" -> _normalize_binance_order(raw, clock)
      [] data_type = "account" -> _normalize_binance_account(raw, clock)
      [] data_type = "trade" -> _normalize_binance_trade(raw, clock)
      [] data_type = "exchange_info" -> _normalize_binance_exchange_info(raw, clock)
      [] data_type = "recent_trades" -> _normalize_binance_recent_trades(raw, clock)
      [] data_type = "orderbook_health" -> _normalize_binance_orderbook_health(raw, clock)
      [] data_type = "volume_profile" -> _normalize_binance_volume_profile(raw, clock)
      [] data_type = "market_anomalies" -> _normalize_binance_market_anomalies(raw, clock)
      [] data_type = "microstructure_health" -> _normalize_binance_microstructure_health(raw, clock)

\* a key the normalizer has set is kept when additional_fields has it too
normalize_TransformWins(venue, data_type, raw_response, additional_fields, clock) ==
    IF venue \notin DOMAIN _normalizers \/ data_type \notin _normalizers[venue]
    THEN [outcome |-> "raised", error |-> "NormalizerNotFound", transformed |-> FALSE,
          raw_after |-> raw_response]
    ELSE LET WithVenue(t, merged) ==
                 LET final == IF "venue" \in DOMAIN merged THEN merged
                              ELSE [venue |-> venue] @@ merged
                 IN [outcome |-> "returned", value |-> final, is_raw |-> t.is_raw,
                     transformed |-> TRUE,
                     raw_after |-> IF t.is_raw THEN [type |-> "dict", items |-> final]
                                   ELSE raw_response]
             Failed == [outcome |-> "raised", error |-> "NormalizationFailed",
                        transformed |-> TRUE, raw_after |-> raw_response]
             given == ~additional_fields.is_none /\ additional_fields.dict # <<>>
             Updated(t) ==
                 IF ~t.ok THEN Failed
                 ELSE IF t.type = "list"
                 THEN (IF given \/ ~\E i \in DOMAIN t.value : t.value[i] = "venue"
                       THEN Failed
                       ELSE [outcome |-> "returned", value |-> t.value, is_raw |-> t.is_raw,
                             transformed |-> TRUE, raw_after |-> raw_response])
                 ELSE WithVenue(t, IF given THEN t.value @@ additional_fields.dict ELSE t.value)
         IN Updated(Transform(data_type, raw_response, clock))

\* SchemaAdapter.normalize: what it returns or raises, whether the returned
\* dict is the raw_response object, whether a normalizer ran, and what the
\* caller's raw_response object holds afterwards.  additional_fields is
\* [is_none |-> TRUE] for None and [is_none |-> FALSE, dict |-> the dict]
\* otherwise.  A list handed back by a normalizer has no update method (line
\* 92) and takes no string index (line 96): it is returned as it is when
\* additional_fields is None or empty and 'venue' is one of its items (line
\* 95 looks among the items), and the call raises otherwise.
normalize(venue, data_type, raw_response, additional_fields, clock) ==
    IF venue \notin DOMAIN _normalizers \/ data_type \notin _normalizers[venue]
    THEN [outcome |-> "raised", error |-> "NormalizerNotFound", transformed |-> FALSE,
          raw_after |-> raw_response]
    ELSE LET WithVenue(t, merged) ==
                 LET final == IF "venue" \in DOMAIN merged THEN merged
                              ELSE [venue |-> venue] @@ merged
                 IN [outcome |-> "returned", value |-> final, is_raw |-> t.is_raw,
                     transformed |-> TRUE,
                     raw_after |-> IF t.is_raw THEN [type |-> "dict", items |-> final]
                                   ELSE raw_response]
             Failed == [outcome |-> "raised", error |-> "NormalizationFailed",
                        transformed |-> TRUE, raw_after |-> raw_response]
             given == ~additional_fields.is_none /\ additional_fields.dict # <<>>
             Updated(t) ==
                 IF ~t.ok THEN Failed
                 ELSE IF t.type = "list"
                 THEN (IF given \/ ~\E i \in DOMAIN t.value : t.value[i] = "venue"
                       THEN Failed
                       ELSE [outcome |-> "returned", value |-> t.value, is_raw |-> t.is_raw,
                             transformed |-> TRUE, raw_after |-> raw_response])
                 ELSE WithVenue(t, IF given THEN additional_fields.dict @@ t.value ELSE t.value)
         IN Updated(Transform(data_type, raw_response, clock))

---------------------------------------------------------------------------
(* adapters/schema_adapter.py: inputs *)

\* the clock of the normalizer stops here (ticks)
MaxNormTime == 1
\* normalize is applied to one payload at most this many times
MaxCalls == 2

\* the strings the payloads hold where the code converts: "10", "10.5", "11",
\* "0", "-10", "-11", "0.5" and "abc"; ten in Arabic-Indic digits (U+0661
\* U+0660), "11" between an em space (U+2003) and a no-break space (U+00A0),
\* and the fullwidth digit seven (U+FF17)
Texts ==
    [ten |-> Py("str", Text(<<"1", "0">>)),
     ten_and_half |-> Py("str", Text(<<"1", "0", ".", "5">>)),
     eleven |-> Py("str", Text(<<"1", "1">>)),
     zero |-> Py("str", Text(<<"0">>)),
     minus_ten |-> Py("str", Text(<<"-", "1", "0">>)),
     minus_eleven |-> Py("str", Text(<<"-", "1", "1">>)),
     half |-> Py("str", Text(<<"0", ".", "5">>)),
     abc |-> Py("str", Text(<<"a", "b", "c">>)),
     arabic_ten |-> Py("str", <<1633, 1632>>),
     spaced_eleven |-> Py("str", <<8195>> \o Text(<<"1", "1">>) \o <<160>>),
     wide_seven |-> Py("str", <<65303>>)]

\* {}
EmptyDict == [k \in {} |-> 0]

Dict(items) == [type |-> "dict", items |-> items]
List(items) == [type |-> "list", items |-> items]

NormVenues == {"binance", "okx"}
DataTypes == _normalizers["binance"] \cup {"funding_rate"}

\* what sse_server passes as additional_fields: nothing, an empty dict, the
\* latency, and dicts that name a key the normalizers or the provider set too
AdditionalFields ==
    { [is_none |-> TRUE] } \cup
    { [is_none |-> FALSE, dict |-> d] :
        d \in { EmptyDict,
                [latency_ms |-> 12],
                [latency_ms |-> 12, timestamp |-> 7],
                [latency_ms |-> 12, venue |-> "binance-spot"] } }

\* binance.get_ticker responses: prices whose mid is positive, zero and
\* negative, with and without closeTime and lastPrice, one without askPrice
\* and one whose bidPrice is no number, one whose bidPrice is " +1e1" and
\* whose askPrice is the int 11, one whose prices are written with digits
\* and blanks beyond ASCII
TickerPayloads ==
    { Dict(opt @@ [bidPrice |-> p[1], askPrice |-> p[2], volume |-> Texts.ten_and_half,
                   symbol |-> "BTCUSDT"]) :
        p \in { <<Texts.ten, Texts.eleven>>, <<Texts.ten_and_half, Texts.eleven>>,
                <<Texts.zero, ZeroText>>, <<Texts.minus_ten, Texts.ten>>,
                <<Texts.minus_eleven, Texts.ten>>, <<Texts.abc, Texts.eleven>>,
                <<Py("str", Text(<<" ", "+", "1", "e", "1">>)), Py("int", 11)>>,
                <<Texts.arabic_ten, Texts.spaced_eleven>> },
        opt \in { EmptyDict, [closeTime |-> 7], [closeTime |-> 7, lastPrice |-> Texts.ten_and_half] } }
    \cup { Dict([bidPrice |-> Texts.ten, volume |-> Texts.ten_and_half, symbol |-> "BTCUSDT"]) }

\* binance.orderbook_l1 responses: with and without the provider's metrics
\* and timestamp, with best-bid and best-ask volumes both zero and 3 and 1
L1Payloads ==
    { Dict(metrics @@ volumes @@ [best_bid |-> Texts.ten, best_ask |-> Texts.eleven]) :
        metrics \in { EmptyDict,
                      [timestamp |-> 7],
                      [symbol |-> "BTCUSDT", spread_bps |-> Rat(6, 5), microprice |-> Rat(21, 2),
                       imbalance_ratio |-> Rat(3, 1), timestamp |-> 7] },
        volumes \in { EmptyDict,
                      [bid_volume |-> Zero, ask_volume |-> Zero],
                      [bid_volume |-> FromInt(3), ask_volume |-> FromInt(1)] } }
    \cup { Dict([best_bid |-> Texts.ten]) }

\* binance.orderbook_l2 responses: "same as L1" with the bid and ask arrays
L2Payloads ==
    { Dict(extra @@ [bids |-> b, asks |-> << <<Texts.eleven, Texts.half>> >>]) :
        b \in { << <<Texts.ten, Texts.half>>, <<Texts.zero, Texts.ten>> >>,
                << <<Texts.minus_eleven, Texts.half>> >>, <<>> },
        extra \in { EmptyDict, [lastUpdateId |-> 12345], [lastUpdateId |-> 12345, timestamp |-> 7] } }

\* binance.get_klines responses: the array, the array wrapped in a dict, and
\* klines given as objects, one whose times are the str "7" and the float
\* 8.5, one whose open time is the fullwidth digit seven
KlinesPayloads ==
    { List(<< List(<<Py("int", 7), Texts.ten, Texts.eleven, Texts.ten, Texts.ten_and_half,
                     Texts.half, Py("int", 8)>>),
              List(<<Py("int", 8), Texts.ten_and_half>>) >>),
      List(<< List(<<Py("str", Text(<<"7">>)), Texts.ten, Texts.eleven, Texts.ten, Texts.ten_and_half,
                     Texts.half, Py("float", Rat(17, 2))>>) >>),
      List(<< List(<<Texts.wide_seven, Texts.arabic_ten, Texts.eleven, Texts.ten,
                     Texts.ten_and_half, Texts.half, Py("int", 8)>>) >>),
      List(<<>>),
      Dict([klines |-> << List(<<Py("int", 7), Texts.ten, Texts.eleven, Texts.ten, Texts.abc,
                                 Texts.half, Py("int", 8)>>) >>]),
      Dict([data |-> << Dict([openTime |-> 7, open |-> Texts.ten, close |-> Texts.ten_and_half]) >>,
            interval |-> "1h", symbol |-> "BTCUSDT"]) }

\* order responses: the average price given as "0.0", "0", "10.5" or not at all
OrderPayloads ==
    { Dict(opt @@ [orderId |-> Py("int", 12345), symbol |-> "BTCUSDT", side |-> "BUY", type |-> "LIMIT",
                   status |-> "FILLED", origQty |-> Texts.ten_and_half, executedQty |-> Texts.ten]) :
        opt \in { EmptyDict,
                  [avgPrice |-> ZeroText, transactTime |-> 7],
                  [avgPrice |-> Texts.zero, price |-> Texts.eleven],
                  [avgPrice |-> Texts.ten_and_half, clientOrderId |-> "my_order_1", timeInForce |-> "GTC"] } }
    \cup { Dict([symbol |-> "BTCUSDT"]) }

\* account responses: balances that are positive, zero and negative in total
AccountPayloads ==
    { Dict(opt @@ [balances |-> b]) :
        b \in { << [asset |-> "BTC", free |-> Texts.half, locked |-> Texts.zero],
                   [asset |-> "ETH", free |-> Texts.zero, locked |-> ZeroText] >>,
                << [asset |-> "USDT", free |-> Texts.minus_eleven, locked |-> Texts.ten] >>,
                << [asset |-> "BNB", free |-> Texts.abc, locked |-> Texts.zero] >> },
        opt \in { EmptyDict, [canTrade |-> TRUE, canWithdraw |-> TRUE, updateTime |-> 7] } }
    \cup { Dict(EmptyDict) }

\* trade responses: the account's trade as buyer, as seller, and unmarked,
\* with a price that is a number, one in digits beyond ASCII, and none
TradePayloads ==
    { Dict(opt @@ [id |-> Py("int", 28457), orderId |-> Py("int", 12345), symbol |-> "BTCUSDT",
                   price |-> price, qty |-> Texts.half, quoteQty |-> Texts.eleven,
                   time |-> 7]) :
        price \in { Texts.ten_and_half, Texts.arabic_ten, Texts.abc },
        opt \in { EmptyDict,
                  [isBuyer |-> TRUE, commission |-> Texts.half, commissionAsset |-> "BNB"],
                  [isBuyer |-> FALSE] } }
    \cup { Dict([id |-> Py("int", 28457)]) }

\* exchange info responses
ExchangeInfoPayloads ==
    { Dict(opt @@ [symbol |-> "BTCUSDT", status |-> "TRADING", baseAsset |-> "BTC",
                   quoteAsset |-> "USDT"]) :
        opt \in { EmptyDict,
                  [filters |-> << [filterType |-> "PRICE_FILTER", minPrice |-> Texts.half,
                                   maxPrice |-> Texts.eleven, tickSize |-> Texts.half],
                                  [filterType |-> "LOT_SIZE", minQty |-> Texts.half],
                                  [filterType |-> "PRICE_FILTER", minPrice |-> Texts.ten] >>] } }
    \cup { Dict([symbol |-> "BTCUSDT"]) }

\* recent public trades: a list, a single trade, a trade without its time,
\* a list with a trade whose price is no number
RecentTradesPayloads ==
    { List(<< [id |-> Py("int", 28457), price |-> Texts.ten_and_half, qty |-> Texts.half,
               quoteQty |-> Texts.eleven, time |-> 7, isBuyerMaker |-> TRUE],
              [id |-> Py("int", 28458), price |-> Texts.eleven, qty |-> Texts.half, time |-> 8] >>),
      Dict([id |-> Py("int", 28457), price |-> Texts.ten_and_half, qty |-> Texts.half, time |-> 7,
            isBuyerMaker |-> FALSE]),
      Dict([id |-> Py("int", 28457), price |-> Texts.ten_and_half, qty |-> Texts.half]),
      List(<< [id |-> Py("int", 28457), price |-> Texts.spaced_eleven, qty |-> Texts.half,
               time |-> 7, isBuyerMaker |-> TRUE],
              [id |-> Py("int", 28458), price |-> Texts.abc, qty |-> Texts.half, time |-> 8,
               isBuyerMaker |-> FALSE] >>) }

\* orderbook health responses: the metrics as floats, one as an int, as the
\* str "0.5" and as a str that is no number
HealthPayloads ==
    { Dict([spread_quality |-> Py("float", Rat(171, 2)),
            depth_imbalance |-> Py("float", Rat(9, 20)),
            health_score |-> Py("float", Rat(391, 5)),
            bid_depth |-> Py("float", Rat(251, 2)),
            ask_depth |-> Py("float", Rat(983, 10))]),
      Dict([spread_quality |-> Py("int", 85), depth_imbalance |-> Texts.half]),
      Dict([spread_quality |-> Py("int", 85), health_score |-> Texts.abc]),
      Dict([spread_quality |-> Py("float", Rat(171, 2))]),
      Dict(EmptyDict) }

\* the analytics responses that are handed on as they are, as the router
\* leaves them: with and without the venue and latency it writes into them;
\* and responses that are lists of texts, with and without the text 'venue'
AnalyticsPayloads ==
    { Dict([poc |-> FromInt(43250)]),
      Dict([poc |-> FromInt(43250), venue |-> "binance", latency_ms |-> 3]),
      Dict([poc |-> FromInt(43250), timestamp |-> 5]),
      List(<<"venue">>),
      List(<<"poc">>) }

\* the responses normalize is given for a data type
Payloads(data_type) ==
    CASE data_type = "ticker" -> TickerPayloads
      [] data_type = "orderbook_l1" -> L1Payloads
      [] data_type = "orderbook_l2" -> L2Payloads
      [] data_type = "klines" -> KlinesPayloads
      [] data_type = "order" -> OrderPayloads
      [] data_type = "account" -> AccountPayloads
      [] data_type = "trade" -> TradePayloads
      [] data_type = "exchange_info" -> ExchangeInfoPayloads
      [] data_type = "recent_trades" -> RecentTradesPayloads
      [] data_type = "orderbook_health" -> HealthPayloads
      [] data_type \in {"volume_profile", "market_anomalies", "microstructure_health"} ->
            AnalyticsPayloads
      [] OTHER -> { Dict([fundingRate |-> Texts.half]) }

---------------------------------------------------------------------------
(* adapters/schema_adapter.py: applications of normalize *)

\* the caller holds raw_response and is about to call normalize on it
InitNorm ==
    /\ provider_clients = {}
    /\ is_healthy = <<>>
    /\ consecutive_failures = <<>>
    /\ call = Idle
    /\ invoked = <<>>
    /\ listed = [pc |-> "none"]
    /\ now = 0
    /\ cache = <<>>
    /\ last_op = [op |-> "none"]
    /\ ttl_call = [pc |-> "none"]
    /\ handlers = <<>>
    /\ document = [pc |-> "none"]
    /\ \E venue \in NormVenues, data_type \in DataTypes, additional_fields \in AdditionalFields :
        \E raw_response \in Payloads(data_type) :
            norm = [pc |-> "ready", venue |-> venue, data_type |-> data_type,
                    given |-> raw_response, raw_response |-> raw_response,
                    additional_fields |-> additional_fields, results |-> <<>>]

\* adapter.normalize(venue, data_type, raw_response, additional_fields) is
\* called, on the caller's object as it is now, and returns or raises
Normalize ==
    /\ norm.pc = "ready"
    /\ Len(norm.results) < MaxCalls
    /\ LET Returned(r) == norm' = [norm EXCEPT !.raw_response = r.raw_after,
                                                !.results = Append(@, [at |-> now * 100] @@ r)]
       IN Returned(normalize(norm.venue, norm.data_type, norm.raw_response,
                             norm.additional_fields, now * 100))
    /\ UNCHANGED <<listed, provider_clients, is_healthy, consecutive_failures, call, invoked, now,
                   cache, last_op, ttl_call, handlers, document>>

\* time.time() advances between two calls
NormTick ==
    /\ now < MaxNormTime
    /\ now' = now + 1
    /\ UNCHANGED <<listed, provider_clients, is_healthy, consecutive_failures, call, invoked,
                   cache, last_op, ttl_call, handlers, norm, document>>

NextNorm ==
    \/ Normalize
    \/ NormTick

SpecNorm == InitNorm /\ [][NextNorm]_vars

---------------------------------------------------------------------------
(* document_registry.py: DocumentID.to_id and DocumentID.from_id *)
(* An id is the sequence of its characters.  None and the empty str, which *)
(* the code's tests of interval and analytics_type treat alike, are <<>>.  *)

\* "ticker"
Ticker == <<"t", "i", "c", "k", "e", "r">>

RECURSIVE split(_, _)
\* str.split(sep) for a separator of one character
split(s, sep) ==
    IF \A i \in 1..Len(s) : s[i] # sep THEN <<s>>
    ELSE LET first == CHOOSE i \in 1..Len(s) : s[i] = sep /\ \A j \in 1..(i - 1) : s[j] # sep
         IN <<SubSeq(s, 1, first - 1)>> \o split(SubSeq(s, first + 1, Len(s)), sep)

\* the id is rendered as f"analytics:{analytics_type}:{symbol}" for every
\* document that has an analytics type, and parsed back accordingly
to_id(self) ==
    IF self.doc_type = Klines /\ self.interval # <<>>
    THEN Klines \o <<":">> \o self.symbol \o <<":">> \o self.interval
    ELSE IF StartsWith(self.doc_type, Analytics) /\ self.analytics_type # <<>>
    THEN Analytics \o <<":">> \o self.analytics_type \o <<":">> \o self.symbol
    ELSE self.doc_type \o <<":">> \o self.symbol

\* DocumentID.from_id: [none |-> TRUE] for None, else the DocumentID
from_id(doc_id) ==
    LET parts == split(doc_id, ":") IN
    IF Len(parts) < 2 THEN [none |-> TRUE]
    ELSE IF parts[1] = Klines /\ Len(parts) = 3
    THEN [none |-> FALSE, doc_type |-> parts[1], symbol |-> parts[2], interval |-> parts[3],
          analytics_type |-> <<>>]
    ELSE IF parts[1] = Analytics /\ Len(parts) = 3
    THEN [none |-> FALSE, doc_type |-> parts[1], symbol |-> parts[2], interval |-> <<>>,
          analytics_type |-> parts[2]]
    ELSE [none |-> FALSE, doc_type |-> parts[1], symbol |-> parts[2], interval |-> <<>>,
          analytics_type |-> <<>>]

\* the DocumentIDs that are made: every type with and without an interval
\* and an analytics type
DocumentIDs ==
    [doc_type : {Ticker, Orderbook, Klines, Analytics},
     symbol : {BtcUsdt, <<"E", "T", "H", "U", "S", "D", "T">>},
     interval : {<<>>, <<"1", "h">>, <<"1", "d">>},
     analytics_type : {<<>>, <<"o", "r", "d", "e", "r", "_", "f", "l", "o", "w">>}]

\* ids that come from outside: "ticker", which has no symbol, and
\* "klines:BTCUSDT:1h:x", which has a part too many
GivenIds == { Ticker, Klines \o <<":">> \o BtcUsdt \o <<":", "1", "h", ":", "x">> }

InitDocs ==
    /\ provider_clients = {}
    /\ is_healthy = <<>>
    /\ consecutive_failures = <<>>
    /\ call = Idle
    /\ invoked = <<>>
    /\ listed = [pc |-> "none"]
    /\ now = 0
    /\ cache = <<>>
    /\ last_op = [op |-> "none"]
    /\ ttl_call = [pc |-> "none"]
    /\ handlers = <<>>
    /\ norm = [pc |-> "none"]
    /\ \/ \E doc \in DocumentIDs : document = [pc |-> "made", doc |-> doc]
       \/ \E id \in GivenIds : document = [pc |-> "rendered", id |-> id]

\* create_document_id: doc.to_id()
Render ==
    /\ document.pc = "made"
    /\ document' = [pc |-> "rendered", doc |-> document.doc, id |-> to_id(document.doc)]
    /\ UNCHANGED <<listed, provider_clients, is_healthy, consecutive_failures, call, invoked, now,
                   cache, last_op, ttl_call, handlers, norm>>

\* parse_document_id: DocumentID.from_id(doc_id)
Parse ==
    /\ document.pc = "rendered"
    /\ document' = [document EXCEPT !.pc = "parsed"] @@ [parsed |-> from_id(document.id)]
    /\ UNCHANGED <<listed, provider_clients, is_healthy, consecutive_failures, call, invoked, now,
                   cache, last_op, ttl_call, handlers, norm>>

NextDocs ==
    \/ Render
    \/ Parse

SpecDocs == InitDocs /\ [][NextDocs]_vars

---------------------------------------------------------------------------
(* Properties of route_tool_call (SpecRouter) *)

\* the activation has passed line 69
Called == call.pc # "idle"

\* the activation ended in one of the ValueErrors of lines 75-101
ValidationFailed == call.pc = "raised" /\ call.error.type = "ValueError"

\* the activation's venue is allowed, its provider has a client and its tool is mapped
PassesValidation ==
    /\ Called
    /\ InList(call.venue, PUBLIC_VENUES)
    /\ VENUE_MAPPING[call.venue] \in provider_clients
    /\ call.unified_tool_name \in DOMAIN _tool_mapping

\* C1: whenever route_tool_call ends in a validation failure (unknown venue,
\* provider not configured, unsupported tool), no client's invoke was called
\* during that call
C1_NoInvokeOnValidationFailure ==
    ValidationFailed => invoked = <<>>

C1_Witness ==
    /\ ValidationFailed
    /\ call.error.kind = "UnsupportedTool"
    /\ provider_clients = Providers
    /\ invoked = <<>>

\* C3 as claimed: the payload has no 'venue' and no 'instrument', has 'symbol'
\* equal to the given 'instrument', has every other argument key with its
\* value unchanged, and the caller's dict is not modified
C3_Original ==
    (Called /\ Len(invoked) > 0) =>
        LET payload == invoked[1].payload
            given == call.given
        IN /\ "venue" \notin DOMAIN payload
           /\ "instrument" \notin DOMAIN payload
           /\ "instrument" \in DOMAIN given =>
                "symbol" \in DOMAIN payload /\ payload["symbol"] = given["instrument"]
           /\ \A k \in DOMAIN given \ {"venue", "instrument"} :
                k \in DOMAIN payload /\ payload[k] = given[k]
           /\ call.arguments = given

\* C3 amended: as claimed, except that a 'symbol' the caller gave together
\* with 'instrument' is replaced by the value of 'instrument'
C3_PayloadRewritten ==
    (Called /\ Len(invoked) > 0) =>
        LET payload == invoked[1].payload
            given == call.given
        IN /\ "venue" \notin DOMAIN payload
           /\ "instrument" \notin DOMAIN payload
           /\ "instrument" \in DOMAIN given =>
                "symbol" \in DOMAIN payload /\ payload["symbol"] = given["instrument"]
           /\ \A k \in DOMAIN given \ {"venue", "instrument"} :
                /\ k \in DOMAIN payload
                /\ (k # "symbol" \/ "instrument" \notin DOMAIN given) => payload[k] = given[k]
           /\ call.arguments = given

C3_Witness ==
    /\ call.pc = "invoking"
    /\ DOMAIN call.given = {"venue", "instrument", "symbol", "interval"}
    /\ call.given["instrument"] = "BTCUSDT"
    /\ invoked[1].payload = [symbol |-> "BTCUSDT", interval |-> "1h"]
    /\ call.arguments = call.given

\* C4: fail-open: a call that passes validation while its provider's client
\* reports is_healthy() = false still invokes that provider, is not refused,
\* and returns what the provider answered
C4_FailOpen ==
    (PassesValidation /\ ~call.client_healthy) =>
        /\ call.error.type # "ValueError"
        /\ Len(invoked) = 1
        /\ invoked[1].client = VENUE_MAPPING[call.venue]
        /\ call.pc = "returned" =>
            /\ DOMAIN call.response \subseteq DOMAIN call.returned
            /\ "result" \in DOMAIN call.response =>
                call.returned["result"].type = call.response["result"].type

C4_Witness ==
    /\ PassesValidation
    /\ ~call.client_healthy
    /\ call.pc = "returned"
    /\ "result" \in DOMAIN call.returned
    /\ Len(invoked) = 1

\* C5 as claimed: every failure during the invocation, transport-level or
\* provider-level, ends the call with the RuntimeError carrying venue, tool
\* and cause; such a call never returns normally
C5_Original ==
    /\ "cause" \in DOMAIN call =>
        /\ call.pc = "raised"
        /\ call.error.type = "RuntimeError"
        /\ call.error.venue = call.venue
        /\ call.error.provider_tool_name = invoked[1].tool_name
        /\ call.error.cause = call.cause
    /\ (Called /\ "response" \in DOMAIN call /\ "error" \in DOMAIN call.response) =>
        /\ call.pc = "raised"
        /\ call.error.type = "RuntimeError"

\* C5 amended: a transport-level failure (client.invoke raises, a timeout
\* included) ends the call with the RuntimeError carrying venue, provider tool
\* name and cause, which is no ValueError, and the call does not return; a
\* provider-level error answer is returned to the caller as the provider gave it
C5_TransportFailureWrapped ==
    /\ "cause" \in DOMAIN call =>
        /\ call.pc = "raised"
        /\ call.error.type = "RuntimeError"
        /\ call.error.venue = call.venue
        /\ call.error.provider_tool_name = invoked[1].tool_name
        /\ call.error.cause = call.cause
    /\ (Called /\ "response" \in DOMAIN call /\ "error" \in DOMAIN call.response) =>
        /\ call.pc = "returned"
        /\ call.returned = call.response

C5_Witness ==
    /\ call.pc = "raised"
    /\ "cause" \in DOMAIN call
    /\ call.cause = "DEADLINE_EXCEEDED"
    /\ call.error.type = "RuntimeError"
    /\ call.error.cause = "DEADLINE_EXCEEDED"

\* C6: a value returned for a provider result carries a top-level
\* routing_info with the unified tool, the provider tool, the venue and the
\* latency; latency_ms and venue are put into the raw result exactly when it
\* is a dict, and a list result is left as it was
C6_ResultShaped ==
    (call.pc = "returned" /\ "result" \in DOMAIN call.response) =>
        LET raw == call.response["result"]
            out == call.returned
        IN /\ DOMAIN out = {"result", "routing_info"}
           /\ out["routing_info"].unified_tool = call.unified_tool_name
           /\ out["routing_info"].provider_tool = invoked[1].tool_name
           /\ out["routing_info"].venue = call.venue
           /\ out["routing_info"].latency_ms >= 0
           /\ out["routing_info"].latency_ms <= (now - call.start_time) * 100
           /\ raw.type = "dict" =>
                /\ out["result"].type = "dict"
                /\ DOMAIN out["result"].items = DOMAIN raw.items \cup {"latency_ms", "venue"}
                /\ out["result"].items["latency_ms"] = out["routing_info"].latency_ms
                /\ out["result"].items["venue"] = call.venue
                /\ \A k \in DOMAIN raw.items \ {"latency_ms", "venue"} :
                        out["result"].items[k] = raw.items[k]
           /\ raw.type # "dict" => out["result"] = raw

C6_Witness ==
    /\ call.pc = "returned"
    /\ "result" \in DOMAIN call.response
    /\ call.response["result"].type = "dict"
    /\ "venue" \in DOMAIN call.response["result"].items
    /\ call.returned["result"].items["venue"] = "binance"
    /\ call.returned["routing_info"].latency_ms = 100

\* C7: the validations are decided in a fixed order: a venue outside
\* PUBLIC_VENUES gives UnknownVenue (listing the valid venues) whatever the
\* tool and the connected providers; an allowed venue whose provider has no
\* client gives ProviderNotConfigured; UnsupportedTool (listing the supported
\* tools) is reported only when the venue is allowed and its client exists
C7_ValidationOrder ==
    Called =>
        LET allowed == InList(call.venue, PUBLIC_VENUES) IN
        /\ ~allowed =>
            /\ ValidationFailed
            /\ call.error.kind = "UnknownVenue"
            /\ call.error.listed = PUBLIC_VENUES
        /\ (allowed /\ VENUE_MAPPING[call.venue] \notin provider_clients) =>
            /\ ValidationFailed
            /\ call.error.kind = "ProviderNotConfigured"
        /\ call.error.kind = "UnsupportedTool" =>
            /\ allowed
            /\ VENUE_MAPPING[call.venue] \in provider_clients
            /\ call.unified_tool_name \notin DOMAIN _tool_mapping
            /\ call.error.listed = get_supported_tools

C7_Witness ==
    /\ ValidationFailed
    /\ call.error.kind = "UnknownVenue"
    /\ call.venue = "okx"
    /\ "okx" \in provider_clients
    /\ call.unified_tool_name \notin DOMAIN _tool_mapping

\* C8: a routed call makes at most one invoke, on the client of the resolved
\* provider id and on no other, with the caller's correlation id and timeout;
\* a failed invocation is not retried
C8_ExactlyOneProviderCall ==
    Called =>
        /\ Len(invoked) <= 1
        /\ \A i \in 1..Len(invoked) :
            /\ invoked[i].client = VENUE_MAPPING[call.venue]
            /\ invoked[i].correlation_id = call.correlation_id
            /\ invoked[i].timeout = call.timeout
        /\ PassesValidation => Len(invoked) = 1

C8_Witness ==
    /\ call.pc = "raised"
    /\ call.error.type = "RuntimeError"
    /\ Len(invoked) = 1
    /\ invoked[1].client = "binance"
    /\ invoked[1].timeout = 5
    /\ invoked[1].correlation_id = "test-456"
    /\ provider_clients = Providers

\* the same arguments with venue = "binance" added
WithBinance(arguments) ==
    [k \in DOMAIN arguments \cup {"venue"} |-> IF k = "venue" THEN "binance" ELSE arguments[k]]

\* C9: without a 'venue' key the call behaves as the same call with
\* venue = "binance": same validation outcome, same client, provider tool
\* name and payload, same venue in the returned metadata
C9_DefaultVenue ==
    (Called /\ "venue" \notin DOMAIN call.given) =>
        LET same == WithBinance(call.given) IN
        /\ call.venue = "binance"
        /\ ValidationFailed <=> Validate(call.unified_tool_name, same) # NoError
        /\ ValidationFailed => call.error = Validate(call.unified_tool_name, same)
        /\ ~ValidationFailed =>
            /\ Len(invoked) = 1
            /\ invoked[1].client = VENUE_MAPPING["binance"]
            /\ invoked[1].tool_name = "binance.generate_market_report"
            /\ invoked[1].payload = ProviderArguments(same)
        /\ (call.pc = "returned" /\ "result" \in DOMAIN call.response) =>
            /\ call.returned["routing_info"].venue = "binance"
            /\ call.response["result"].type = "dict" =>
                    call.returned["result"].items["venue"] = "binance"

C9_Witness ==
    /\ call.pc = "returned"
    /\ "venue" \notin DOMAIN call.given
    /\ "instrument" \in DOMAIN call.given
    /\ "result" \in DOMAIN call.response
    /\ call.returned["routing_info"].venue = "binance"
    /\ invoked[1].client = "binance"

\* C10 as claimed: without a 'venue' key the call fails with a validation
\* error reporting the missing 'venue', and no provider is invoked
C10_Original ==
    (Called /\ "venue" \notin DOMAIN call.given) =>
        /\ ValidationFailed
        /\ call.error.kind = "MissingVenue"
        /\ invoked = <<>>

---------------------------------------------------------------------------
(* Properties of the cache (SpecCache) *)

\* C2: get(key) returns the stored value exactly when an entry exists and
\* now - created_at <= ttl_for(key); an older entry makes get return None and
\* is removed by that read; an orderbook entry (ttl 0.5 s) is returned 0.4 s
\* after it was written and absent 0.6 s after
C2_GetWithinTtl ==
    last_op.op = "get" =>
        LET key == last_op.key
            fresh == last_op.had /\
                        last_op.at - last_op.entry.timestamp <= _get_ttl_for_key(key)
        IN /\ fresh => (last_op.ret = last_op.entry.data /\ key \in DOMAIN cache
                            /\ cache[key] = last_op.entry)
           /\ ~fresh => (last_op.ret = "None" /\ key \notin DOMAIN cache)
           /\ (last_op.had /\ key = OrderbookKey) =>
                /\ last_op.at - last_op.entry.timestamp = 4 => last_op.ret = last_op.entry.data
                /\ last_op.at - last_op.entry.timestamp = 5 => last_op.ret = last_op.entry.data
                /\ last_op.at - last_op.entry.timestamp = 6 =>
                        (last_op.ret = "None" /\ key \notin DOMAIN cache)

C2_Witness ==
    /\ last_op.op = "get"
    /\ last_op.key = OrderbookKey
    /\ last_op.had
    /\ last_op.at - last_op.entry.timestamp = 6
    /\ last_op.ret = "None"
    /\ OrderbookKey \notin DOMAIN cache
\* C11 as claimed: with venue "binance" and a binance client, market.get_ticker
\* makes exactly one call of the binance client with tool name
\* binance.get_ticker and market.get_orderbook_l1 one with binance.orderbook_l1,
\* and get_supported_tools lists market.get_ticker, market.get_orderbook_l1,
\* market.get_orderbook_l2 and market.get_klines
C11_Claimed ==
    /\ \A t \in {"market.get_ticker", "market.get_orderbook_l1",
                  "market.get_orderbook_l2", "market.get_klines"} :
            InList(t, get_supported_tools)
    /\ (/\ Called
        /\ call.venue = "binance"
        /\ "binance" \in provider_clients
        /\ call.unified_tool_name \in {"market.get_ticker", "market.get_orderbook_l1"}) =>
            /\ Len(invoked) = 1
            /\ invoked[1].client = "binance"
            /\ invoked[1].tool_name =
                    (IF call.unified_tool_name = "market.get_ticker"
                     THEN "binance.get_ticker" ELSE "binance.orderbook_l1")

---------------------------------------------------------------------------
(* Properties of _get_ttl_for_key (SpecTtl) *)

\* the positions of the table's patterns that occur in the key
Matches == { i \in 1..Len(ttl_call.self.tool_ttls) :
                Contains(ttl_call.self.tool_ttls[i][1], ttl_call.key) }

\* the position of the longest pattern that occurs in the key
LongestMatch ==
    CHOOSE i \in Matches :
        \A j \in Matches : Len(ttl_call.self.tool_ttls[j][1]) <= Len(ttl_call.self.tool_ttls[i][1])

\* C12: the ttl resolved for a key is the duration of the first entry of the
\* table, in table order, whose pattern occurs in the key, and the cache's
\* default ttl when no pattern occurs in it
C12_FirstMatch ==
    ttl_call.pc = "returned" =>
        IF Matches = {}
        THEN ttl_call.ret = ttl_call.self.default_ttl
        ELSE \E i \in Matches :
                /\ \A j \in Matches : i <= j
                /\ ttl_call.ret = ttl_call.self.tool_ttls[i][2]

\* "orderbook" (1 s) stands before "orderbook_l1" (2 s) and both occur in the key
C12_Witness ==
    /\ ttl_call.pc = "returned"
    /\ ttl_call.key = OrderbookKey
    /\ ttl_call.self.tool_ttls = << <<tool_ttls[2][1], 10>>, <<tool_ttls[3][1], 20>> >>
    /\ ttl_call.ret = 10

\* C13 as claimed: the ttl resolved for a key is the duration of the longest
\* pattern of the table that occurs in the key, and the default when none does
C13_Original ==
    ttl_call.pc = "returned" =>
        IF Matches = {}
        THEN ttl_call.ret = ttl_call.self.default_ttl
        ELSE ttl_call.ret = ttl_call.self.tool_ttls[LongestMatch][2]

\* C13: the length of a pattern does not decide: when a shorter pattern that
\* occurs in the key stands before the longest one, the ttl is not taken from
\* the longest one but from the entry that stands first; the ttl is that of the
\* longest pattern when no other matching pattern stands before it, and with
\* market_data_cache's table, whose overlapping patterns carry one duration
C13_OrderNotLength ==
    (ttl_call.pc = "returned" /\ Matches # {}) =>
        LET table == ttl_call.self.tool_ttls IN
        /\ \A i \in Matches :
              (i < LongestMatch /\ \A j \in Matches : i <= j) => ttl_call.ret = table[i][2]
        /\ (\A j \in Matches : LongestMatch <= j) => ttl_call.ret = table[LongestMatch][2]
        /\ (table = tool_ttls /\ ttl_call.key \in CacheKeys) =>
              ttl_call.ret = table[LongestMatch][2]

\* the longest pattern "orderbook_l1" (2 s) stands after "orderbook" (0.5 s)
C13_Witness ==
    /\ ttl_call.pc = "returned"
    /\ ttl_call.key = MixedKey
    /\ ttl_call.self.tool_ttls = << <<tool_ttls[2][1], 5>>, <<tool_ttls[3][1], 20>> >>
    /\ ttl_call.ret = 5

---------------------------------------------------------------------------
(* Properties of SimpleCache.set (SpecCache) *)

\* the step is a call of set, invalidate or clear that writes or removes key k
WritesKey(k) ==
    /\ now' = now
    /\ \/ last_op'.op \in {"set", "invalidate"} /\ last_op'.key = k
       \/ last_op'.op = "clear"

\* C14: set(key, value) puts, whatever entry the key had, an entry with the
\* value and the current time as creation time, and leaves every other key's
\* entry as it was; an entry is neither removed nor altered by any step that
\* is not a set, invalidate or clear of its key while its age is within its
\* ttl; and a get of a key whose entry's age is within its ttl returns the
\* entry's value
C14_SetReplaces ==
    [][ /\ (now' = now /\ last_op'.op = "set") =>
              /\ DOMAIN cache' = DOMAIN cache \cup {last_op'.key}
              /\ cache'[last_op'.key] = [data |-> last_op'.value, timestamp |-> now]
              /\ \A o \in DOMAIN cache \ {last_op'.key} : cache'[o] = cache[o]
        /\ \A k \in DOMAIN cache :
              (now' - cache[k].timestamp <= _get_ttl_for_key(k) /\ ~WritesKey(k)) =>
                    (k \in DOMAIN cache' /\ cache'[k] = cache[k])
        /\ (/\ now' = now
            /\ last_op'.op = "get"
            /\ last_op'.key \in DOMAIN cache
            /\ now - cache[last_op'.key].timestamp <= _get_ttl_for_key(last_op'.key)) =>
                    last_op'.ret = cache[last_op'.key].data
      ]_vars

\* set has replaced the orderbook entry while the ticker key holds an older,
\* expired entry that the set left in place
C14_Witness ==
    /\ last_op.op = "set"
    /\ last_op.key = OrderbookKey
    /\ last_op.value = "data-2"
    /\ cache[OrderbookKey] = [data |-> "data-2", timestamp |-> now]
    /\ TickerKey \in DOMAIN cache
    /\ cache[TickerKey].data = "data-1"
    /\ now - cache[TickerKey].timestamp > _get_ttl_for_key(TickerKey)

---------------------------------------------------------------------------
(* Properties of the fetch and search handlers (SpecFetch) *)

\* handler h, suspended in client.invoke, gets a result and writes the cache
WritesCache(h) ==
    /\ handlers[h].pc = "invoking"
    /\ handlers'[h].pc = "done"
    /\ handlers'[h].outcome = "document"

\* C15: two handlers that missed on one cache key may both be suspended in
\* the provider invocation; each one that gets a result then sets the key to
\* the whole dict it received, with the current time, and touches no other
\* key; so while no other cache operation has run since the last set, the key
\* has an entry and it holds exactly the dict of the handler whose set ran
\* last, one of the provider's dicts and not a union of two
C15_LastWriterWins ==
    /\ [](last_op.op = "set" =>
            /\ last_op.key \in DOMAIN cache
            /\ cache[last_op.key].data = last_op.value
            /\ cache[last_op.key].data \in ProviderData
            /\ (/\ handlers[last_op.by].pc = "done"
                /\ handlers[last_op.by].outcome = "document"
                /\ ~handlers[last_op.by].cached) =>
                    /\ handlers[last_op.by].cache_key = last_op.key
                    /\ handlers[last_op.by].data = cache[last_op.key].data)
    /\ [][\A h \in Handlers :
            WritesCache(h) =>
                /\ DOMAIN cache' = DOMAIN cache \cup {handlers[h].cache_key}
                /\ cache'[handlers[h].cache_key] =
                        [data |-> handlers'[h].data, timestamp |-> now]
                /\ \A o \in DOMAIN cache \ {handlers[h].cache_key} : cache'[o] = cache[o]
                /\ last_op' = [op |-> "set", key |-> handlers[h].cache_key, at |-> now,
                               by |-> h, value |-> handlers'[h].data]
       ]_vars

\* both handlers missed on the orderbook key and wrote different dicts, the
\* fetch handler first, the search handler last: the cache holds the latter's
C15_Witness ==
    /\ handlers[1].pc = "done"
    /\ handlers[2].pc = "done"
    /\ handlers[1].kind = "fetch"
    /\ handlers[2].kind = "search"
    /\ handlers[1].outcome = "document"
    /\ handlers[2].outcome = "document"
    /\ handlers[1].cache_key = OrderbookKey
    /\ handlers[2].cache_key = OrderbookKey
    /\ ~handlers[1].cached
    /\ ~handlers[2].cached
    /\ handlers[1].data = {<<"price", "43250.50">>}
    /\ handlers[2].data = {<<"price", "43251.00">>}
    /\ last_op.op = "set"
    /\ last_op.by = 2
    /\ cache[OrderbookKey].data = {<<"price", "43251.00">>}

---------------------------------------------------------------------------
(* Properties of SchemaAdapter.normalize (SpecNorm) *)

\* normalize has a normalizer for the application's venue and data type
Registered == norm.venue \in DOMAIN _normalizers /\ norm.data_type \in _normalizers[norm.venue]

\* what the caller's raw_response object held when the i-th call was made
RawBefore(i) == IF i = 1 THEN norm.given ELSE norm.results[i - 1].raw_after

\* additional_fields as the dict that line 91 merges: empty for None and {}
Additional == IF norm.additional_fields.is_none THEN EmptyDict ELSE norm.additional_fields.dict

\* C16 as claimed: for every registered venue and data type and any
\* additional_fields, the caller's raw_response holds after a call of
\* normalize what it held before, and a returned mapping is not the
\* raw_response object
C16_Claimed ==
    Registered =>
        \A i \in 1..Len(norm.results) :
            /\ norm.results[i].raw_after = RawBefore(i)
            /\ norm.results[i].outcome = "returned" => ~norm.results[i].is_raw

\* C17: a call for a registered venue and data type that returns a mapping
\* gives the normalizer's dict with every key of additional_fields set to the
\* additional value, every other key as the normalizer set it, and 'venue'
\* equal to the input venue when neither of the two has a 'venue' key and as
\* supplied otherwise; a call for a venue or data type that is not registered
\* raises the normalizer-not-found error and no normalizer has run
C17_MergeAndVenue ==
    \A i \in 1..Len(norm.results) :
        LET r == norm.results[i]
            t == Transform(norm.data_type, RawBefore(i), r.at)
        IN /\ ~Registered =>
                /\ r.outcome = "raised"
                /\ r.error = "NormalizerNotFound"
                /\ ~r.transformed
           /\ (Registered /\ r.outcome = "returned" /\ t.type = "dict") =>
                /\ r.transformed
                /\ DOMAIN r.value = DOMAIN t.value \cup DOMAIN Additional \cup {"venue"}
                /\ \A k \in DOMAIN Additional : r.value[k] = Additional[k]
                /\ \A k \in DOMAIN t.value \ DOMAIN Additional : r.value[k] = t.value[k]
                /\ "venue" \notin DOMAIN t.value \cup DOMAIN Additional =>
                        r.value["venue"] = norm.venue

\* a ticker without closeTime, normalized at clock 100 with additional_fields
\* that carry 'timestamp': the result has the additional timestamp, and the
\* input venue
C17_Witness ==
    /\ Len(norm.results) = 1
    /\ norm.data_type = "ticker"
    /\ norm.results[1].outcome = "returned"
    /\ norm.results[1].at = 100
    /\ "closeTime" \notin DOMAIN norm.given.items
    /\ "timestamp" \in DOMAIN Additional
    /\ norm.results[1].value["timestamp"] = 7
    /\ norm.results[1].value["venue"] = "binance"

\* the keys under which a provider response carries its time
TimestampFields == {"closeTime", "timestamp", "transactTime", "updateTime", "time"}

\* C18 as claimed: two calls of normalize on one payload with the same venue,
\* data type and additional fields, at any two clock times, return the same
\* dict for every registered data type, but for a 'timestamp' that may differ
\* when the payload carries no timestamp field (a list that is handed back is
\* the same list both times)
C18_Claimed ==
    (Registered /\ Len(norm.results) = 2 /\ norm.results[1].outcome = "returned") =>
        LET first == norm.results[1].value
            second == norm.results[2].value
        IN /\ norm.results[2].outcome = "returned"
           /\ IF norm.results[1].is_raw /\ norm.given.type = "list"
              THEN first = second
              ELSE /\ DOMAIN first = DOMAIN second
                   /\ \A k \in DOMAIN first \ {"timestamp"} : first[k] = second[k]
                   /\ ("timestamp" \in DOMAIN first /\ first["timestamp"] # second["timestamp"]) =>
                        (norm.given.type = "dict" =>
                            DOMAIN norm.given.items \cap TimestampFields = {})

\* the payload of the application is a ticker whose required fields are
\* there and whose prices and volume are numbers
TickerGiven ==
    /\ norm.data_type = "ticker"
    /\ Registered
    /\ {"bidPrice", "askPrice", "volume", "symbol"} \subseteq DOMAIN norm.given.items
    /\ \A k \in {"bidPrice", "askPrice", "volume", "lastPrice"} \cap DOMAIN norm.given.items :
            float(norm.given.items[k]).ok

\* C19: every such ticker is normalized without an error, bid and ask are the
\* payload's prices as numbers, mid is (bid + ask) / 2, and spread_bps is
\* (ask - bid) / mid * 10000 when mid > 0 and 0 when mid <= 0 (the equations
\* are stated on numerators and denominators, cleared of division)
C19_MidAndSpread ==
    TickerGiven =>
        \A i \in 1..Len(norm.results) :
            LET r == norm.results[i] IN
            /\ r.outcome = "returned"
            /\ LET bid == r.value["bid"]
                   ask == r.value["ask"]
                   mid == r.value["mid"]
                   spread_bps == r.value["spread_bps"]
               IN /\ bid = float(norm.given.items["bidPrice"]).val
                  /\ ask = float(norm.given.items["askPrice"]).val
                  /\ mid[2] > 0 /\ spread_bps[2] > 0
                  /\ 2 * mid[1] * bid[2] * ask[2] = (bid[1] * ask[2] + ask[1] * bid[2]) * mid[2]
                  /\ mid[1] > 0 =>
                        spread_bps[1] * mid[1] * ask[2] * bid[2] =
                            (ask[1] * bid[2] - bid[1] * ask[2]) * 10000 * spread_bps[2] * mid[2]
                  /\ mid[1] <= 0 => spread_bps[1] = 0

\* a ticker with bid -11 and ask 10: mid is -0.5 and spread_bps is 0
C19_Witness ==
    /\ TickerGiven
    /\ Len(norm.results) > 0
    /\ norm.results[1].outcome = "returned"
    /\ norm.results[1].value["bid"] = <<-11, 1>>
    /\ norm.results[1].value["ask"] = <<10, 1>>
    /\ norm.results[1].value["mid"] = <<-1, 2>>
    /\ norm.results[1].value["spread_bps"] = <<0, 1>>

\* the payload of the application is a top-of-book response with its prices,
\* which are numbers, and with the best-bid and best-ask volumes
L1Given ==
    /\ norm.data_type = "orderbook_l1"
    /\ Registered
    /\ {"best_bid", "best_ask", "bid_volume", "ask_volume"} \subseteq DOMAIN norm.given.items
    /\ float(norm.given.items["best_bid"]).ok
    /\ float(norm.given.items["best_ask"]).ok

\* the imbalance a normalized top-of-book carries, under either name
ImbalanceOf(value) ==
    IF "imbalance_ratio" \in DOMAIN value THEN value["imbalance_ratio"] ELSE value["imbalance"]

\* C20 as claimed: the normalized top-of-book has an imbalance ratio of 0.5
\* when the best-bid and best-ask volumes are both zero, and of
\* bid / (bid + ask) otherwise
C20_Original ==
    L1Given =>
        \A i \in 1..Len(norm.results) :
            LET bid_qty == norm.given.items["bid_volume"]
                ask_qty == norm.given.items["ask_volume"]
                imbalance == ImbalanceOf(norm.results[i].value)
            IN /\ norm.results[i].outcome = "returned"
               /\ IF bid_qty = Zero /\ ask_qty = Zero
                  THEN imbalance = <<1, 2>>
                  ELSE imbalance[1] * (bid_qty[1] * ask_qty[2] + ask_qty[1] * bid_qty[2]) =
                            bid_qty[1] * ask_qty[2] * imbalance[2]

\* the payload of the application is an account response whose balances all
\* carry an asset and numeric free and locked amounts
AccountGiven ==
    /\ norm.data_type = "account"
    /\ Registered
    /\ "balances" \in DOMAIN norm.given.items
    /\ \A i \in 1..Len(norm.given.items["balances"]) :
            LET b == norm.given.items["balances"][i] IN
            /\ {"asset", "free", "locked"} \subseteq DOMAIN b
            /\ float(b["free"]).ok
            /\ float(b["locked"]).ok

RECURSIVE NonZeroBalances(_)
\* the balances whose free + locked is not zero, in the order given, each
\* with its total
NonZeroBalances(balances) ==
    IF balances = <<>> THEN <<>>
    ELSE LET b == Head(balances)
             free == float(b["free"]).val
             locked == float(b["locked"]).val
         IN (IF Plus(free, locked) # Zero
             THEN <<[asset |-> b["asset"], free |-> free, locked |-> locked,
                     total |-> Plus(free, locked)]>>
             ELSE <<>>) \o NonZeroBalances(Tail(balances))

\* C21 as claimed: the normalized balances are, in input order, exactly the
\* input assets whose free + locked is not zero, each with
\* total = free + locked
C21_Claimed ==
    AccountGiven =>
        \A i \in 1..Len(norm.results) :
            /\ norm.results[i].outcome = "returned"
            /\ norm.results[i].value["balances"] = NonZeroBalances(norm.given.items["balances"])

\* the public trades of the payload: the items of a list, or the one trade
GivenTrades == IF norm.given.type = "list" THEN norm.given.items ELSE <<norm.given.items>>

\* the payload of the application is a list of public trades, or one public
\* trade, each with the fields the transform requires, price and quantities
\* being numbers
RecentTradesGiven ==
    /\ norm.data_type = "recent_trades"
    /\ Registered
    /\ \A j \in 1..Len(GivenTrades) :
            /\ {"id", "price", "qty", "time"} \subseteq DOMAIN GivenTrades[j]
            /\ \A k \in {"price", "qty", "quoteQty"} \cap DOMAIN GivenTrades[j] :
                    float(GivenTrades[j][k]).ok

\* the payload of the application is one trade of the account, with the
\* fields the transform requires, price, quantities and commission being
\* numbers
TradeGiven ==
    /\ norm.data_type = "trade"
    /\ Registered
    /\ {"id", "orderId", "symbol", "price", "qty", "quoteQty", "time"} \subseteq
            DOMAIN norm.given.items
    /\ \A k \in {"price", "qty", "quoteQty", "commission"} \cap DOMAIN norm.given.items :
            float(norm.given.items[k]).ok

\* the flag is there and set
FlagSet(d, key) == key \in DOMAIN d /\ d[key]

\* C22: whenever the recent-trades transform returns, each public trade is a
\* SELL exactly when its isBuyerMaker flag is set and a BUY otherwise, also
\* when the flag is missing; whenever the my-trade transform returns, the
\* trade of the account is a BUY exactly when its isBuyer flag is set and a
\* SELL otherwise, also when the flag is missing; and both return for every
\* payload that has the required fields with numbers for price and
\* quantities
C22_TradeSides ==
    \A i \in 1..Len(norm.results) :
        LET r == norm.results[i] IN
        /\ RecentTradesGiven => r.outcome = "returned"
        /\ (norm.data_type = "recent_trades" /\ Registered /\ r.outcome = "returned") =>
            /\ Len(r.value["trades"]) = Len(GivenTrades)
            /\ \A j \in 1..Len(GivenTrades) :
                    r.value["trades"][j].side =
                        (IF FlagSet(GivenTrades[j], "isBuyerMaker") THEN "SELL" ELSE "BUY")
        /\ TradeGiven => r.outcome = "returned"
        /\ (norm.data_type = "trade" /\ Registered /\ r.outcome = "returned") =>
                r.value["side"] = (IF FlagSet(norm.given.items, "isBuyer") THEN "BUY" ELSE "SELL")

\* a list of two public trades was normalized: the one whose buyer is the
\* maker is a SELL, the one without the flag is a BUY
C22_Witness ==
    /\ RecentTradesGiven
    /\ norm.given.type = "list"
    /\ Len(norm.results) > 0
    /\ norm.results[1].outcome = "returned"
    /\ FlagSet(norm.given.items[1], "isBuyerMaker")
    /\ "isBuyerMaker" \notin DOMAIN norm.given.items[2]
    /\ norm.results[1].value["trades"][1].side = "SELL"
    /\ norm.results[1].value["trades"][2].side = "BUY"

\* the payload of the application is an order response with the fields the
\* transform requires
OrderGiven ==
    /\ norm.data_type = "order"
    /\ Registered
    /\ {"orderId", "symbol", "side", "type", "status", "origQty", "executedQty"} \subseteq
            DOMAIN norm.given.items

\* C23 as claimed: remaining_quantity is the original quantity minus the
\* filled quantity, and average_price is in the normalized order exactly
\* when the payload has an avgPrice whose value as a number is not zero
C23_Claimed ==
    OrderGiven =>
        \A i \in 1..Len(norm.results) :
            LET d == norm.given.items
                value == norm.results[i].value
            IN /\ norm.results[i].outcome = "returned"
               /\ value["remaining_quantity"] =
                    Minus(float(d["origQty"]).val, float(d["executedQty"]).val)
               /\ "average_price" \in DOMAIN value <=>
                    ("avgPrice" \in DOMAIN d /\ float(d["avgPrice"]).val # Zero)

\* the health state of the clients is as it was
HealthUnchanged ==
    /\ is_healthy' = is_healthy
    /\ consecutive_failures' = consecutive_failures

\* C24: a step of route_tool_call or of the client's invoke (the activation
\* or the log of invocations changes: a rejection in validation, an
\* invocation, its return, its failure) and a call of list_capabilities,
\* whether it returns or raises, leave the healthy flag and the
\* consecutive-failure counter of every client as they were; a step that
\* changes them is a health check, which changes neither the activation nor
\* the log nor the record of the discovery
C24_OnlyHealthCheck ==
    [][/\ (call' # call \/ invoked' # invoked \/ listed' # listed) => HealthUnchanged
       /\ ~HealthUnchanged =>
            (call' = call /\ invoked' = invoked /\ listed' = listed /\ now' = now)]_vars

\* list_capabilities has raised on a client and the provider has then failed
\* an invocation on the same client, which is still healthy with no failure
\* counted
C24_Witness ==
    /\ call.pc = "raised"
    /\ "cause" \in DOMAIN call
    /\ listed.pc = "raised"
    /\ listed.provider = VENUE_MAPPING[call.venue]
    /\ is_healthy[VENUE_MAPPING[call.venue]]
    /\ consecutive_failures[VENUE_MAPPING[call.venue]] = 0

\* is_healthy() answers TRUE exactly for the clients with no failure counted
HealthyIffNoFailures ==
    \A p \in provider_clients : is_healthy[p] <=> consecutive_failures[p] = 0

\* C30: in every reachable state a client is healthy exactly when its
\* consecutive-failure counter is 0; a step that changes a client's health
\* state either adds one to its counter and leaves it unhealthy (a failed
\* health check) or sets the counter to 0 and leaves it healthy (a
\* successful one)
C30_HealthyIffZero ==
    /\ []HealthyIffNoFailures
    /\ [][\A p \in provider_clients :
            (is_healthy'[p] # is_healthy[p] \/ consecutive_failures'[p] # consecutive_failures[p]) =>
                \/ consecutive_failures'[p] = consecutive_failures[p] + 1 /\ ~is_healthy'[p]
                \/ consecutive_failures'[p] = 0 /\ is_healthy'[p]]_vars

\* two health checks in a row have failed on a client
C30_Witness ==
    \E p \in provider_clients : consecutive_failures[p] = 2 /\ ~is_healthy[p]

\* handler h is started on a document that has a tool: it looks its key up
Looks(h) ==
    /\ handlers[h].pc = "idle"
    /\ handlers'[h].pc # "idle"
    /\ handlers'[h].tool_name # <<>>

\* C25 as claimed: when fetch or search looks a key up and the cache holds
\* an unexpired entry for it, whatever the entry holds, the handler returns
\* a document built of the entry's value and does not invoke the provider
C25_Claimed ==
    [][\A h \in Handlers :
        (Looks(h) /\ Fresh(handlers'[h].cache_key)) =>
            /\ handlers'[h].pc = "done"
            /\ handlers'[h].outcome = "document"
            /\ handlers'[h].cached
            /\ handlers'[h].data = cache[handlers'[h].cache_key].data]_vars

\* the invocation of handler h ends in a failure: the provider answered
\* with an error, or the invocation raised
Fails(h) ==
    /\ handlers[h].pc = "invoking"
    /\ handlers'[h].pc = "done"
    /\ handlers'[h].outcome # "document"

\* every cache entry holds a dict the provider returned
EntriesFromProvider == \A k \in DOMAIN cache : cache[k].data \in ProviderData

\* an entry is created or replaced only in a step in which a handler with
\* that key gets a result from the provider, and then holds that result
WrittenBySuccess ==
    \A k \in DOMAIN cache' :
        (k \notin DOMAIN cache \/ cache'[k] # cache[k]) =>
            \E h \in Handlers : /\ WritesCache(h)
                                /\ handlers[h].cache_key = k
                                /\ cache'[k].data = handlers'[h].data

\* the call of handler h has ended in a failure of the provider invocation
Failed(h) ==
    /\ handlers[h].pc = "done"
    /\ handlers[h].outcome # "document"
    /\ handlers[h].tool_name # <<>>

---------------------------------------------------------------------------
(* Properties of the handlers on klines documents (SpecKlines) *)

\* handler h has derived a cache key
HasKey(h) ==
    /\ handlers[h].pc \in {"invoking", "done"}
    /\ handlers[h].tool_name # <<>>

\* C27 as claimed: two handlers whose documents derive different provider
\* arguments, or different tools, never have the same cache key
C27_Claimed ==
    \A h1, h2 \in Handlers :
        (HasKey(h1) /\ HasKey(h2) /\ handlers[h1].cache_key = handlers[h2].cache_key) =>
            /\ handlers[h1].tool_name = handlers[h2].tool_name
            /\ create_tool_arguments(handlers[h1].doc) = create_tool_arguments(handlers[h2].doc)

---------------------------------------------------------------------------
(* Properties of the advertised tools (SpecRouter) *)

\* C28 as claimed: a tool that list_tools advertises is in the router's
\* tool mapping, so a call of it with an allowed venue whose provider has a
\* client is not rejected as an unsupported tool
C28_Claimed ==
    (/\ Called
     /\ InList(call.unified_tool_name, list_tools)
     /\ InList(call.venue, PUBLIC_VENUES)
     /\ VENUE_MAPPING[call.venue] \in provider_clients) =>
        /\ call.unified_tool_name \in DOMAIN _tool_mapping
        /\ ~(call.pc = "raised" /\ call.error.kind = "UnsupportedTool")

---------------------------------------------------------------------------
(* Properties of the document ids (SpecDocs) *)

\* the DocumentID is one that to_id renders with all its fields: klines with
\* an interval, analytics with an analytics type, or a plain type with neither
Renderable(d) ==
    \/ d.doc_type = Klines /\ d.interval # <<>> /\ d.analytics_type = <<>>
    \/ d.doc_type = Analytics /\ d.analytics_type # <<>> /\ d.interval = <<>>
    \/ d.doc_type \notin {Klines, Analytics} /\ d.interval = <<>> /\ d.analytics_type = <<>>

\* C29 as claimed: for a renderable DocumentID d, from_id(to_id(d)) is a
\* DocumentID with d's doc_type, symbol, interval and analytics_type, and
\* derives d's tool and d's tool arguments
C29_Claimed ==
    (document.pc = "parsed" /\ "doc" \in DOMAIN document /\ Renderable(document.doc)) =>
        LET d == document.doc
            parsed == document.parsed
        IN /\ ~parsed.none
           /\ parsed.doc_type = d.doc_type
           /\ parsed.symbol = d.symbol
           /\ parsed.interval = d.interval
           /\ parsed.analytics_type = d.analytics_type
           /\ get_tool_for_document(parsed) = get_tool_for_document(d)
           /\ create_tool_arguments(parsed) = create_tool_arguments(d)

====
